---- MODULE Spec2Model ----
(***************************************************************************)
(* Routing and schedule engine of the metro route planner:                 *)
(*   backend/graph/unique_edges_graph.py  (UniqueEdgesMetroGraph)          *)
(*   backend/routes_router.py             (PathFinder)                     *)
(*   backend/utils/schedule_calculator.py (MetroScheduleCalculator)        *)
(*                                                                         *)
(* Costs are floats in the source (1.0, 0.2, 0.15, 0.05, 0.1); the model   *)
(* keeps them exact as integers in twentieths (1.0 = 20).  Station ids are *)
(* strings ordered by string comparison in the source (heap tie-breaks);   *)
(* the model uses the integers 1, 2, 3, 4 with their order.       Station   *)
(* coordinates are positions in km along one line, so the haversine        *)
(* distance of two stations is the absolute difference of positions.       *)
(***************************************************************************)
EXTENDS Integers, Sequences, FiniteSets, TLC

VARIABLES graph, call, ret

vars == <<graph, call, ret>>

----------------------------------------------------------------------------
(* Bounds of the model *)

(* rows of the GTFS tables (unique edges plus transfers) the graph is built from *)
MaxRows == 2
(* largest max_paths a caller passes *)
MaxPathsArg == 2

(* stop ids; a request may name any of them, in the graph or not *)
Stations == {1, 2, 3, 4}

(* route ids of routes.txt and the route_short_name column *)
RouteIds == {"R1", "R2"}

routes_cache == [r \in RouteIds |-> IF r = "R1" THEN "1" ELSE "2"]

----------------------------------------------------------------------------
(* Program constants (twentieths of a cost unit) *)

BaseEdgeCost == 20
AStarPenalty == 4
DijkstraPenalty == 3
RelaxedPenalty == 1
EquivThreshold == 2
EquivLenTolerance == 2
DefaultMaxPaths == 3

(* float('infinity'): larger than every cost the model can reach *)
Infinity == 1000000

NoLine == "None"

----------------------------------------------------------------------------
(* Generic helpers *)

Abs(x) == IF x < 0 THEN 0 - x ELSE x

Range(s) == {s[i] : i \in DOMAIN s}

(* result values of the searches: a path, Python None, or a raised exception *)
PathResult(p, d) == [kind |-> "path", path |-> p, distance |-> d]

NoneResult == [kind |-> "None", path |-> <<>>, distance |-> 0]

Raised(e) == [kind |-> e, path |-> <<>>, distance |-> 0]

IsPath(r) == r.kind = "path"

IsNone(r) == r.kind = "None"

IsRaise(r) == r.kind \notin {"path", "None"}

----------------------------------------------------------------------------
(* UniqueEdgesMetroGraph *)

(* mutant: the isolated nodes are not removed *)
build_graph_unpruned(stops, edges, pick, transfers) ==
    LET unique_edges == {e \in edges : e[1] \in DOMAIN stops /\ e[2] \in DOMAIN stops}
        transferKeys == {t[1] : t \in transfers} \cup {t[2] : t \in transfers}
        keys == {e[1] : e \in unique_edges} \cup {e[2] : e \in unique_edges}
                    \cup transferKeys
        lineNbrs(a) == {e[2] : e \in {x \in unique_edges : x[1] = a}}
                          \cup {e[1] : e \in {x \in unique_edges : x[2] = a}}
        trNbrs(a) == {t[2] : t \in {x \in transfers : x[1] = a}}
        pairOf(a, b) == IF a <= b THEN <<a, b>> ELSE <<b, a>>
        adjacency0 == [a \in keys |->
                         [b \in lineNbrs(a) \cup trNbrs(a) |->
                            IF b \in trNbrs(a) THEN <<"transfer", 1>>
                            ELSE <<pick[pairOf(a, b)], 1>>]]
        nodes_to_remove == {n \in keys : DOMAIN adjacency0[n] = {}}
        nodes == keys \ nodes_to_remove
    IN  IF edges = {}
        THEN [stations |-> [a \in {} |-> a],
              nodes |-> {},
              adjacency |-> [a \in {} |-> a]]
        ELSE [stations |-> stops,
              nodes |-> keys,
              adjacency |-> adjacency0]

(* build_graph: the early return when no unique edge was extracted (the    *)
(* object stays as __init__ left it), else steps 4, 6-9 and the pruning of *)
(* isolated nodes.                                                         *)
(*   stops     : stops of stops.txt with location_type 0: name, position   *)
(*   edges     : unique edges <<stop1, stop2, route_id>>, stop1 <= stop2   *)
(*   pick      : for a pair of stops served by several routes, the route   *)
(*               whose entry is written last into adjacency (iteration     *)
(*               order of the edge set)                                    *)
(*   transfers : rows <<from_stop_id, to_stop_id>> of transfers.txt        *)
build_graph(stops, edges, pick, transfers) ==
    LET unique_edges == {e \in edges : e[1] \in DOMAIN stops /\ e[2] \in DOMAIN stops}
        transferKeys == {t[1] : t \in transfers} \cup {t[2] : t \in transfers}
        keys == {e[1] : e \in unique_edges} \cup {e[2] : e \in unique_edges}
                    \cup transferKeys
        lineNbrs(a) == {e[2] : e \in {x \in unique_edges : x[1] = a}}
                          \cup {e[1] : e \in {x \in unique_edges : x[2] = a}}
        trNbrs(a) == {t[2] : t \in {x \in transfers : x[1] = a}}
        pairOf(a, b) == IF a <= b THEN <<a, b>> ELSE <<b, a>>
        adjacency0 == [a \in keys |->
                         [b \in lineNbrs(a) \cup trNbrs(a) |->
                            IF b \in trNbrs(a) THEN <<"transfer", 1>>
                            ELSE <<pick[pairOf(a, b)], 1>>]]
        nodes_to_remove == {n \in keys : DOMAIN adjacency0[n] = {}}
        nodes == keys \ nodes_to_remove
    IN  IF edges = {}
        THEN [stations |-> [a \in {} |-> a],
              nodes |-> {},
              adjacency |-> [a \in {} |-> a]]
        ELSE [stations |-> stops,
              nodes |-> nodes,
              adjacency |-> [a \in nodes |-> adjacency0[a]]]

get_neighbors(G, node_id) ==
    IF node_id \in DOMAIN G.adjacency THEN DOMAIN G.adjacency[node_id] ELSE {}

_get_route_short_name(route_id) ==
    IF route_id = "transfer" THEN "Correspondance"
    ELSE IF route_id \in DOMAIN routes_cache THEN routes_cache[route_id]
    ELSE "?"

get_line_between_stations(G, from_id, to_id) ==
    IF from_id \in DOMAIN G.adjacency /\ to_id \in DOMAIN G.adjacency[from_id]
    THEN _get_route_short_name(G.adjacency[from_id][to_id][1])
    ELSE "?"

(* the stop's name, or the id itself when the stop is unknown *)
get_station_name(G, stop_id) ==
    IF stop_id \in DOMAIN G.stations THEN G.stations[stop_id].name
    ELSE ToString(stop_id)

----------------------------------------------------------------------------
(* PathFinder: heuristic *)

haversine_distance(p1, p2) == Abs(p1 - p2)

(* distance_km / 30 * 60 / 2.0 cost units, i.e. one cost unit per km *)
_get_heuristic_cost(G, current_station, target_station) ==
    IF current_station \notin DOMAIN G.stations \/ target_station \notin DOMAIN G.stations
    THEN 0
    ELSE haversine_distance(G.stations[current_station].km,
                            G.stations[target_station].km) * BaseEdgeCost

----------------------------------------------------------------------------
(* PathFinder: searches *)

(* heapq order of the A* entries <<f_score, g_score, station, line>>.  An  *)
(* entry of a station is pushed only with a strictly smaller g_score, so   *)
(* two entries never agree on their first three components.                *)
AStarLess(x, y) ==
    \/ x[1] < y[1]
    \/ x[1] = y[1] /\ x[2] < y[2]
    \/ x[1] = y[1] /\ x[2] = y[2] /\ x[3] < y[3]

(* heapq order of the Dijkstra entries <<distance, station, line>> *)
DijkstraLess(x, y) ==
    \/ x[1] < y[1]
    \/ x[1] = y[1] /\ x[2] < y[2]

(* walk the predecessor map back from a station; the start has no entry *)
RECURSIVE reconstruct(_, _)
reconstruct(came_from, current) ==
    IF current \in DOMAIN came_from
    THEN Append(reconstruct(came_from, came_from[current]), current)
    ELSE <<current>>

(* mutant: the first edge of a path pays the penalty too *)
edge_cost_from_start(penalize, current_line, neighbor_line, penalty) ==
    IF penalize /\ neighbor_line # current_line /\ neighbor_line # "transfer"
    THEN BaseEdgeCost + penalty
    ELSE BaseEdgeCost

(* cost of the edge to a neighbour reached on neighbor_line, coming in on  *)
(* current_line                                                            *)
edge_cost(penalize, current_line, neighbor_line, penalty) ==
    IF penalize /\ current_line # NoLine /\ neighbor_line # current_line
          /\ neighbor_line # "transfer"
    THEN BaseEdgeCost + penalty
    ELSE BaseEdgeCost

(* the while loop of a_star_pathfinding *)
RECURSIVE a_star_loop(_, _, _, _)
a_star_loop(G, end_station, prefer_line_continuity, st) ==
    IF st.open_set = {} THEN NoneResult
    ELSE
      LET cur == CHOOSE x \in st.open_set :
                     \A y \in st.open_set : x = y \/ AStarLess(x, y)
          open1 == st.open_set \ {cur}
          current_station == cur[3]
          current_line == cur[4]
      IN
      IF current_station \in st.closed_set
      THEN a_star_loop(G, end_station, prefer_line_continuity,
                       [st EXCEPT !.open_set = open1])
      ELSE IF current_station = end_station
      THEN PathResult(reconstruct(st.came_from, current_station),
                      st.g_score[end_station])
      ELSE
        LET closed1 == st.closed_set \cup {current_station}
            nbrs == get_neighbors(G, current_station) \ closed1
            line(n) == get_line_between_stations(G, current_station, n)
            tentative(n) == st.g_score[current_station]
                 + edge_cost(prefer_line_continuity, current_line, line(n), AStarPenalty)
            better == {n \in nbrs : tentative(n) < st.g_score[n]}
        IN
        IF \E n \in nbrs : n \notin DOMAIN st.g_score
        THEN Raised("KeyError")
        ELSE a_star_loop(G, end_station, prefer_line_continuity,
               [open_set |-> open1 \cup
                    {<<tentative(n) + _get_heuristic_cost(G, n, end_station),
                       tentative(n), n, line(n)>> : n \in better},
                closed_set |-> closed1,
                g_score |-> [x \in DOMAIN st.g_score |->
                                IF x \in better THEN tentative(x) ELSE st.g_score[x]],
                came_from |-> [x \in DOMAIN st.came_from \cup better |->
                                IF x \in better THEN current_station
                                ELSE st.came_from[x]]])

(* mutant: the start = end shortcut returns the pair [start, end] *)
a_star_pathfinding_pair(G, start_station, end_station, prefer_line_continuity) ==
    IF start_station \notin G.nodes \/ end_station \notin G.nodes THEN NoneResult
    ELSE IF start_station = end_station
    THEN PathResult(<<start_station, end_station>>, 0)
    ELSE a_star_loop(G, end_station, prefer_line_continuity,
           [open_set |-> {<<_get_heuristic_cost(G, start_station, end_station), 0,
                            start_station, NoLine>>},
            closed_set |-> {},
            g_score |-> [n \in G.nodes |-> IF n = start_station THEN 0 ELSE Infinity],
            came_from |-> [n \in {} |-> n]])

a_star_pathfinding(G, start_station, end_station, prefer_line_continuity) ==
    IF start_station \notin G.nodes \/ end_station \notin G.nodes THEN NoneResult
    ELSE IF start_station = end_station THEN PathResult(<<start_station>>, 0)
    ELSE a_star_loop(G, end_station, prefer_line_continuity,
           [open_set |-> {<<_get_heuristic_cost(G, start_station, end_station), 0,
                            start_station, NoLine>>},
            closed_set |-> {},
            g_score |-> [n \in G.nodes |-> IF n = start_station THEN 0 ELSE Infinity],
            came_from |-> [n \in {} |-> n]])

(* the while loop shared by dijkstra_pathfinding and                       *)
(* _find_path_with_modified_costs; exhausted is what the function does     *)
(* when the queue empties                                                  *)
RECURSIVE dijkstra_loop(_, _, _, _, _, _)
dijkstra_loop(G, end_station, penalize, penalty, exhausted, st) ==
    IF st.priority_queue = {} THEN exhausted
    ELSE
      LET cur == CHOOSE x \in st.priority_queue :
                     \A y \in st.priority_queue : x = y \/ DijkstraLess(x, y)
          queue1 == st.priority_queue \ {cur}
          current_distance == cur[1]
          current_station == cur[2]
          current_line == cur[3]
      IN
      IF current_station \in st.visited
      THEN dijkstra_loop(G, end_station, penalize, penalty, exhausted,
                         [st EXCEPT !.priority_queue = queue1])
      ELSE IF current_station = end_station
      THEN PathResult(reconstruct(st.predecessors, end_station),
                      st.distances[end_station])
      ELSE
        LET visited1 == st.visited \cup {current_station}
            nbrs == get_neighbors(G, current_station) \ visited1
            line(n) == get_line_between_stations(G, current_station, n)
            new_distance(n) == current_distance
                 + edge_cost(penalize, current_line, line(n), penalty)
            better == {n \in nbrs : new_distance(n) < st.distances[n]}
        IN
        IF \E n \in nbrs : n \notin DOMAIN st.distances
        THEN Raised("KeyError")
        ELSE dijkstra_loop(G, end_station, penalize, penalty, exhausted,
               [priority_queue |-> queue1 \cup
                    {<<new_distance(n), n, line(n)>> : n \in better},
                visited |-> visited1,
                distances |-> [x \in DOMAIN st.distances |->
                                IF x \in better THEN new_distance(x)
                                ELSE st.distances[x]],
                predecessors |-> [x \in DOMAIN st.predecessors \cup better |->
                                IF x \in better THEN current_station
                                ELSE st.predecessors[x]]])

dijkstra_init(G, start_station) ==
    [priority_queue |-> {<<0, start_station, NoLine>>},
     visited |-> {},
     distances |-> [n \in G.nodes |-> IF n = start_station THEN 0 ELSE Infinity],
     predecessors |-> [n \in {} |-> n]]

(* mutant: Dijkstra adds the penalty of A* *)
dijkstra_pathfinding_dearer(G, start_station, end_station, prefer_line_continuity) ==
    IF start_station \notin G.nodes \/ end_station \notin G.nodes THEN NoneResult
    ELSE IF start_station = end_station THEN PathResult(<<start_station>>, 0)
    ELSE dijkstra_loop(G, end_station, prefer_line_continuity, AStarPenalty,
                       NoneResult, dijkstra_init(G, start_station))

dijkstra_pathfinding(G, start_station, end_station, prefer_line_continuity) ==
    IF start_station \notin G.nodes \/ end_station \notin G.nodes THEN NoneResult
    ELSE IF start_station = end_station THEN PathResult(<<start_station>>, 0)
    ELSE dijkstra_loop(G, end_station, prefer_line_continuity, DijkstraPenalty,
                       NoneResult, dijkstra_init(G, start_station))

(* its last statement is "return None @ staticmethod": the matrix product  *)
(* of None and a type, which raises TypeError                              *)
_find_path_with_modified_costs(G, start_station, end_station, penalty_factor) ==
    IF start_station \notin G.nodes \/ end_station \notin G.nodes THEN NoneResult
    ELSE IF start_station = end_station THEN PathResult(<<start_station>>, 0)
    ELSE dijkstra_loop(G, end_station, TRUE, penalty_factor,
                       Raised("TypeError"), dijkstra_init(G, start_station))

(* mutant: the try around A* is missing, its exception reaches the caller *)
find_optimal_path_trace_uncaught(G, start_station, end_station, prefer_line_continuity) ==
    LET a == a_star_pathfinding(G, start_station, end_station, prefer_line_continuity)
        d == dijkstra_pathfinding(G, start_station, end_station, prefer_line_continuity)
    IN  IF IsPath(a) \/ IsRaise(a)
        THEN [astar |-> a, ran_dijkstra |-> FALSE, dijkstra |-> NoneResult, result |-> a]
        ELSE [astar |-> a, ran_dijkstra |-> TRUE, dijkstra |-> d,
              result |-> IF IsPath(d) THEN d ELSE NoneResult]

(* find_optimal_path, with what happened inside it: A* first; Dijkstra    *)
(* when A* returned None or raised (both except clauses fall through);     *)
(* None when Dijkstra returned None or raised                              *)
find_optimal_path_trace(G, start_station, end_station, prefer_line_continuity) ==
    LET a == a_star_pathfinding(G, start_station, end_station, prefer_line_continuity)
        d == dijkstra_pathfinding(G, start_station, end_station, prefer_line_continuity)
    IN  IF IsPath(a)
        THEN [astar |-> a, ran_dijkstra |-> FALSE, dijkstra |-> NoneResult, result |-> a]
        ELSE [astar |-> a, ran_dijkstra |-> TRUE, dijkstra |-> d,
              result |-> IF IsPath(d) THEN d ELSE NoneResult]

(* mutant: the search runs from the end station to the start station *)
find_optimal_path_backwards(G, start_station, end_station, prefer_line_continuity) ==
    find_optimal_path_trace(G, end_station, start_station, prefer_line_continuity).result

find_optimal_path(G, start_station, end_station, prefer_line_continuity) ==
    find_optimal_path_trace(G, start_station, end_station, prefer_line_continuity).result

SetOf(path) == {path[i] : i \in DOMAIN path}

(* mutant: the similarity test is inverted (< 0.7) *)
_paths_are_equivalent_inverted(path1, path2) ==
    IF ~IsPath(path1) \/ ~IsPath(path2) THEN FALSE
    ELSE IF Abs(path1.distance - path2.distance) > EquivThreshold THEN FALSE
    ELSE IF Abs(Len(path1.path) - Len(path2.path)) > EquivLenTolerance THEN FALSE
    ELSE LET common == Cardinality(SetOf(path1.path) \cap SetOf(path2.path))
             total == Cardinality(SetOf(path1.path) \cup SetOf(path2.path))
         IN  total > 0 /\ 10 * common < 7 * total

(* threshold 0.1, length tolerance 2, Jaccard similarity > 0.7 *)
_paths_are_equivalent(path1, path2) ==
    IF ~IsPath(path1) \/ ~IsPath(path2) THEN FALSE
    ELSE IF Abs(path1.distance - path2.distance) > EquivThreshold THEN FALSE
    ELSE IF Abs(Len(path1.path) - Len(path2.path)) > EquivLenTolerance THEN FALSE
    ELSE LET common == Cardinality(SetOf(path1.path) \cap SetOf(path2.path))
             total == Cardinality(SetOf(path1.path) \cup SetOf(path2.path))
         IN  total > 0 /\ 10 * common > 7 * total

(* list.sort(key=distance): stable *)
RECURSIVE sort_by_distance(_)
sort_by_distance(paths) ==
    IF Len(paths) <= 1 THEN paths
    ELSE LET n == Len(paths)
             front == sort_by_distance(SubSeq(paths, 1, n - 1))
             x == paths[n]
             k == Cardinality({i \in DOMAIN front : front[i].distance <= x.distance})
         IN  SubSeq(front, 1, k) \o <<x>> \o SubSeq(front, k + 1, Len(front))

(* paths[:max_paths] *)
slice_to(paths, max_paths) ==
    IF max_paths >= 0
    THEN SubSeq(paths, 1, IF max_paths < Len(paths) THEN max_paths ELSE Len(paths))
    ELSE SubSeq(paths, 1, IF Len(paths) + max_paths > 0 THEN Len(paths) + max_paths ELSE 0)

ListResult(paths) == [kind |-> "list", paths |-> paths, max_paths |-> 0]

RaisedList(e) == [kind |-> e, paths |-> <<>>, max_paths |-> 0]

(* mutant: the max_paths argument is ignored, the default 3 applies *)
find_multiple_paths_default(G, start_station, end_station, max_paths) ==
    LET optimal_path == find_optimal_path(G, start_station, end_station, TRUE)
        paths1 == IF IsPath(optimal_path) THEN <<optimal_path>> ELSE <<>>
        alternative_path == find_optimal_path(G, start_station, end_station, FALSE)
        paths2 == IF Len(paths1) < DefaultMaxPaths /\ IsPath(alternative_path)
                     /\ ~_paths_are_equivalent(optimal_path, alternative_path)
                  THEN Append(paths1, alternative_path) ELSE paths1
        relaxed_path == _find_path_with_modified_costs(G, start_station, end_station,
                                                       RelaxedPenalty)
        paths3 == IF IsPath(relaxed_path)
                     /\ ~\E i \in DOMAIN paths2 : _paths_are_equivalent(relaxed_path, paths2[i])
                  THEN Append(paths2, relaxed_path) ELSE paths2
    IN  IF Len(paths2) < DefaultMaxPaths
        THEN IF IsRaise(relaxed_path) THEN RaisedList(relaxed_path.kind)
             ELSE ListResult(slice_to(sort_by_distance(paths3), DefaultMaxPaths))
        ELSE ListResult(slice_to(sort_by_distance(paths2), DefaultMaxPaths))

find_multiple_paths(G, start_station, end_station, max_paths) ==
    LET optimal_path == find_optimal_path(G, start_station, end_station, TRUE)
        paths1 == IF IsPath(optimal_path) THEN <<optimal_path>> ELSE <<>>
        alternative_path == find_optimal_path(G, start_station, end_station, FALSE)
        paths2 == IF Len(paths1) < max_paths /\ IsPath(alternative_path)
                     /\ ~_paths_are_equivalent(optimal_path, alternative_path)
                  THEN Append(paths1, alternative_path) ELSE paths1
        relaxed_path == _find_path_with_modified_costs(G, start_station, end_station,
                                                       RelaxedPenalty)
        paths3 == IF IsPath(relaxed_path)
                     /\ ~\E i \in DOMAIN paths2 : _paths_are_equivalent(relaxed_path, paths2[i])
                  THEN Append(paths2, relaxed_path) ELSE paths2
    IN  IF Len(paths2) < max_paths
        THEN IF IsRaise(relaxed_path) THEN RaisedList(relaxed_path.kind)
             ELSE ListResult(slice_to(sort_by_distance(paths3), max_paths))
        ELSE ListResult(slice_to(sort_by_distance(paths2), max_paths))

----------------------------------------------------------------------------
(* PathFinder.process_routes_for_frontend                                  *)
(*                                                                         *)
(* graph.get_co2_between_stations, which it calls for the co2 total of a   *)
(* route, is defined in none of the files modelled here; the total does    *)
(* not influence the segments and the co2 field is left out.               *)

(* round(n / d): to the nearest integer, a tie to the even one *)
round_div(n, d) ==
    LET q == n \div d
        r == n % d
    IN  IF 2 * r < d THEN q
        ELSE IF 2 * r > d THEN q + 1
        ELSE IF q % 2 = 0 THEN q ELSE q + 1

UnknownLines == {"?", "transfer", "Correspondance"}

(* the steps of a path, each with the line of its adjacency entry *)
path_with_lines(G, path) ==
    [i \in 1 .. Len(path) - 1 |->
        [from |-> path[i],
         to |-> path[i + 1],
         line |-> get_line_between_stations(G, path[i], path[i + 1]),
         is_unknown |-> get_line_between_stations(G, path[i], path[i + 1])
                           \in UnknownLines]]

(* line of the nearest known step before step i, None when there is none *)
prev_line(steps, i) ==
    LET known == {j \in 1 .. i - 1 : ~steps[j].is_unknown}
    IN  IF known = {} THEN NoLine
        ELSE steps[CHOOSE j \in known : \A k \in known : k <= j].line

(* line of the nearest known step after step i, None when there is none *)
next_line(steps, i) ==
    LET known == {j \in i + 1 .. Len(steps) : ~steps[j].is_unknown}
    IN  IF known = {} THEN NoLine
        ELSE steps[CHOOSE j \in known : \A k \in known : j <= k].line

(* one iteration of the inference pass ("Etape 1") on step i *)
infer_step(G, steps, i) ==
    LET step == steps[i]
        prev == prev_line(steps, i)
        next == next_line(steps, i)
        known(l) == [steps EXCEPT ![i].line = l, ![i].is_unknown = FALSE]
        direct == get_line_between_stations(G, step.from, step.to)
        all_lines == IF direct \in UnknownLines THEN {} ELSE {direct}
    IN  IF ~step.is_unknown THEN steps
        ELSE IF prev # NoLine /\ next # NoLine /\ prev = next THEN known(prev)
        ELSE IF step.to \notin get_neighbors(G, step.from) THEN steps
        ELSE IF Cardinality(all_lines) = 1 THEN known(direct)
        ELSE IF Cardinality(all_lines) > 1
        THEN IF prev \in all_lines THEN known(prev)
             ELSE IF next \in all_lines THEN known(next)
             ELSE steps
        ELSE IF prev # NoLine /\ next # NoLine /\ prev = next
                  /\ prev \notin UnknownLines
        THEN known(prev)
        ELSE steps

(* steps i, i+1, ... in order: a later step sees the lines already inferred *)
RECURSIVE infer_lines(_, _, _)
infer_lines(G, steps, i) ==
    IF i > Len(steps) THEN steps
    ELSE infer_lines(G, infer_step(G, steps, i), i + 1)

(* group 1 of the pattern ^(\d+[AB]?) on the line name with bis/Bis turned *)
(* into B, the empty string when there is no match.  The short names of    *)
(* routes_cache are plain numbers: the group is the whole name; "?",       *)
(* "Correspondance" and the other names do not start with a digit.         *)
logical_line_key(line) ==
    IF line \in Range(routes_cache) THEN line ELSE ""

are_same_logical_line(line1, line2) ==
    IF line1 = line2 THEN TRUE
    ELSE IF line1 # "" /\ line2 # ""
    THEN /\ logical_line_key(line1) # ""
         /\ logical_line_key(line2) # ""
         /\ logical_line_key(line1) = logical_line_key(line2)
    ELSE FALSE

(* a segment under construction; stations is kept for line segments only *)
transfer_segment(step) ==
    [line |-> "Correspondance à pied", from |-> step.from, to |-> step.to,
     stops |-> 1, is_transfer |-> TRUE, stations |-> <<>>]

line_segment(step) ==
    [line |-> step.line, from |-> step.from, to |-> step.to,
     stops |-> 1, is_transfer |-> FALSE, stations |-> <<step.from, step.to>>]

basic_segment(path) ==
    [line |-> "Métro", from |-> path[1], to |-> path[Len(path)],
     stops |-> Len(path) - 1, is_transfer |-> FALSE, stations |-> <<>>]

(* mutant: a step that continues the current segment is not counted *)
group_step_uncounted(acc, step) ==
    IF step.is_unknown
    THEN IF step.from # step.to
         THEN [segments |-> acc.segments \o acc.current \o <<transfer_segment(step)>>,
               current |-> <<>>]
         ELSE acc
    ELSE IF acc.current = <<>>
               \/ ~are_same_logical_line(acc.current[1].line, step.line)
    THEN [segments |-> acc.segments \o acc.current,
          current |-> <<line_segment(step)>>]
    ELSE [segments |-> acc.segments,
          current |-> <<[acc.current[1] EXCEPT !.to = step.to,
                                               !.stations = Append(@, step.to)]>>]

(* one iteration of the grouping pass ("Etape 2"); current is the empty    *)
(* sequence when current_segment is None                                   *)
group_step(acc, step) ==
    IF step.is_unknown
    THEN IF step.from # step.to
         THEN [segments |-> acc.segments \o acc.current \o <<transfer_segment(step)>>,
               current |-> <<>>]
         ELSE acc
    ELSE IF acc.current = <<>>
               \/ ~are_same_logical_line(acc.current[1].line, step.line)
    THEN [segments |-> acc.segments \o acc.current,
          current |-> <<line_segment(step)>>]
    ELSE [segments |-> acc.segments,
          current |-> <<[acc.current[1] EXCEPT !.to = step.to,
                                               !.stops = @ + 1,
                                               !.stations = Append(@, step.to)]>>]

RECURSIVE group_steps(_, _, _)
group_steps(steps, i, acc) ==
    IF i > Len(steps) THEN acc
    ELSE group_steps(steps, i + 1, group_step(acc, steps[i]))

(* the segments of a path of two or more stations, with station ids *)
build_segments(G, path) ==
    LET steps == infer_lines(G, path_with_lines(G, path), 1)
        acc == group_steps(steps, 1, [segments |-> <<>>, current |-> <<>>])
        segments == acc.segments \o acc.current
    IN  IF segments = <<>> THEN <<basic_segment(path)>> ELSE segments

(* the segment sent to the frontend: station names; the key "type" is set  *)
(* for a transfer only, and every reader takes "normal" when it is absent  *)
route_segment(G, segment) ==
    [line |-> segment.line,
     from |-> get_station_name(G, segment.from),
     to |-> get_station_name(G, segment.to),
     stops |-> segment.stops,
     type |-> IF segment.is_transfer THEN "transfer" ELSE "normal"]

route_info(G, route_data) ==
    LET segments == build_segments(G, route_data.path)
        real_line_segments == SelectSeq(segments, LAMBDA x : ~x.is_transfer)
        transfer_segments == SelectSeq(segments, LAMBDA x : x.is_transfer)
        lineChanges == IF Len(real_line_segments) > 1
                       THEN Len(real_line_segments) - 1 ELSE 0
    IN  [duration |-> round_div(route_data.distance * 2, BaseEdgeCost),  \* cost units

         transfers |-> lineChanges + Len(transfer_segments),
         segments |-> [i \in 1 .. Len(segments) |-> route_segment(G, segments[i])]]

(* a route whose path has fewer than two stations is skipped *)
process_routes_for_frontend(G, routes) ==
    LET kept == SelectSeq(routes, LAMBDA r : Len(r.path) >= 2)
    IN  [i \in 1 .. Len(kept) |-> route_info(G, kept[i])]

----------------------------------------------------------------------------
(* PathFinder.deduplicate_routes *)

(* a run of this many identical consecutive pairs makes a route illogical *)
MaxIdenticalRun == 2

(* a route of more segments is illogical *)
MaxSegments == 20

(* (line, from, to, type) of a segment, type "normal" when absent *)
seg_key(segment) == <<segment.line, segment.from, segment.to, segment.type>>

(* the loop over consecutive segments: TRUE when it returns False *)
RECURSIVE has_identical_run(_, _, _)
has_identical_run(segments, i, consecutive_identical) ==
    IF i > Len(segments) - 1 THEN FALSE
    ELSE IF seg_key(segments[i]) = seg_key(segments[i + 1])
    THEN IF consecutive_identical + 1 >= MaxIdenticalRun THEN TRUE
         ELSE has_identical_run(segments, i + 1, consecutive_identical + 1)
    ELSE has_identical_run(segments, i + 1, 0)

(* mutant: the test on the number of segments is missing *)
_is_route_logical_any_length(route) ==
    IF route.segments = <<>> THEN FALSE
    ELSE ~has_identical_run(route.segments, 1, 0)

_is_route_logical(route) ==
    IF route.segments = <<>> THEN FALSE
    ELSE IF has_identical_run(route.segments, 1, 0) THEN FALSE
    ELSE IF Len(route.segments) > MaxSegments THEN FALSE
    ELSE TRUE

route_signature(route) == [i \in 1 .. Len(route.segments) |-> seg_key(route.segments[i])]

(* the loop over the routes, from route i on *)
RECURSIVE dedup_loop(_, _, _)
dedup_loop(routes, i, acc) ==
    IF i > Len(routes) THEN acc
    ELSE IF ~_is_route_logical(routes[i])
    THEN dedup_loop(routes, i + 1, [acc EXCEPT !.filtered_count = @ + 1])
    ELSE IF route_signature(routes[i]) \notin acc.seen_routes
    THEN dedup_loop(routes, i + 1,
            [acc EXCEPT !.seen_routes = @ \cup {route_signature(routes[i])},
                        !.unique_routes = Append(@, routes[i])])
    ELSE dedup_loop(routes, i + 1, acc)

(* mutant: the list of unique routes is returned even when it is empty *)
deduplicate_routes_no_fallback(routes) ==
    dedup_loop(routes, 1, [unique_routes |-> <<>>, seen_routes |-> {},
                           filtered_count |-> 0]).unique_routes

deduplicate_routes(routes) ==
    LET acc == dedup_loop(routes, 1, [unique_routes |-> <<>>, seen_routes |-> {},
                                      filtered_count |-> 0])
    IN  IF Len(acc.unique_routes) = 0 /\ Len(routes) > 0 THEN <<routes[1]>>
        ELSE acc.unique_routes

----------------------------------------------------------------------------
(* MetroScheduleCalculator                                                 *)
(*                                                                         *)
(* A datetime is a number of seconds counted from midnight of the day of   *)
(* the request (day 0); a time of day is a number of seconds in            *)
(* 0 .. 86399.  An "HH:MM" text of the frequency table is the pair         *)
(* <<HH, MM>>, and the text that strftime("%H:%M") gives is the minute of  *)
(* the day.  A duration that the code rounds to one decimal is a number of *)
(* tenths of a minute.                                                     *)

MinutesPerDay == 1440

(* total_seconds() / 60 *)
SecondsPerMinute == 60

(* minutes waited at a station when the terminus cannot be worked out *)
DefaultTerminusTime == 5

(* minutes per unit of graph distance *)
MinutesPerUnit == 2

(* segment.get("travel_time", 2) *)
DefaultTravelTime == 2

(* iterations after which get_next_departure gives up *)
MaxDepartureNumber == 1000

(* self.frequencies for the lines of routes_cache, ranges in table order *)
frequencies ==
    [l \in {"1", "2"} |->
        IF l = "1"
        THEN << [start |-> <<5, 30>>,  end |-> <<7, 30>>,  frequency |-> 4],
                [start |-> <<7, 30>>,  end |-> <<9, 30>>,  frequency |-> 2],
                [start |-> <<9, 30>>,  end |-> <<16, 30>>, frequency |-> 3],
                [start |-> <<16, 30>>, end |-> <<20, 30>>, frequency |-> 2],
                [start |-> <<20, 30>>, end |-> <<0, 39>>,  frequency |-> 4] >>
        ELSE << [start |-> <<5, 30>>,  end |-> <<7, 30>>,  frequency |-> 5],
                [start |-> <<7, 30>>,  end |-> <<9, 30>>,  frequency |-> 3],
                [start |-> <<9, 30>>,  end |-> <<16, 30>>, frequency |-> 4],
                [start |-> <<16, 30>>, end |-> <<20, 30>>, frequency |-> 3],
                [start |-> <<20, 30>>, end |-> <<0, 42>>,  frequency |-> 6] >>]

(* the calculator as __init__ leaves it; self in the methods below *)
MetroScheduleCalculator == [frequencies |-> frequencies]

(* Optional values *)
Some(x) == [some |-> TRUE, val |-> x]

None == [some |-> FALSE, val |-> 0]

timedelta(days, minutes) == (days * MinutesPerDay + minutes) * SecondsPerMinute

_parse_time(hm) == timedelta(0, (IF hm[1] >= 24 THEN hm[1] - 24 ELSE hm[1]) * 60 + hm[2])

_time_in_range(check_time, start_time, end_time) ==
    IF start_time <= end_time
    THEN start_time <= check_time /\ check_time <= end_time
    ELSE check_time >= start_time \/ check_time <= end_time

(* datetime.time() and datetime.date() *)
time_of(datetime) == datetime % timedelta(1, 0)

date_of(datetime) == datetime \div timedelta(1, 0)

(* datetime.combine(date, time) *)
combine(date, time) == timedelta(date, 0) + time

(* index of the first range of the line that holds the time, 0 for none *)
first_range(self, line, target_time) ==
    LET line_schedule == self.frequencies[line]
        hits == {i \in DOMAIN line_schedule :
                    _time_in_range(target_time, _parse_time(line_schedule[i].start),
                                   _parse_time(line_schedule[i].end))}
    IN  IF hits = {} THEN 0 ELSE CHOOSE i \in hits : \A j \in hits : i <= j

get_frequency_for_time(self, line, target_time) ==
    IF line \notin DOMAIN self.frequencies THEN None
    ELSE IF first_range(self, line, target_time) = 0 THEN None
    ELSE Some(self.frequencies[line][first_range(self, line, target_time)].frequency)

(* mutant: only the services of the current day are looked at *)
_find_next_service_time_today(self, line, current_time) ==
    IF line \notin DOMAIN self.frequencies THEN None
    ELSE
      LET line_schedule == self.frequencies[line]
          today(i) == combine(date_of(current_time), _parse_time(line_schedule[i].start))
          next_services ==
              {today(i) : i \in {j \in DOMAIN line_schedule : today(j) > current_time}}
      IN  IF next_services = {} THEN None
          ELSE Some(CHOOSE x \in next_services : \A y \in next_services : x <= y)

_find_next_service_time(self, line, current_time) ==
    IF line \notin DOMAIN self.frequencies THEN None
    ELSE
      LET line_schedule == self.frequencies[line]
          today(i) == combine(date_of(current_time), _parse_time(line_schedule[i].start))
          next_services ==
              {today(i) : i \in {j \in DOMAIN line_schedule : today(j) > current_time}}
                 \cup {today(i) + timedelta(1, 0) : i \in DOMAIN line_schedule}
      IN  IF next_services = {} THEN None
          ELSE Some(CHOOSE x \in next_services : \A y \in next_services : x <= y)

(* the while loop of _calculate_distance_between_stations: the queue is    *)
(* kept sorted by (distance, station); a neighbour that is not a node      *)
(* raises KeyError, which the function turns into infinity                 *)
RECURSIVE distance_loop(_, _, _)
distance_loop(G, station2, st) ==
    IF st.priority_queue = {} THEN Infinity
    ELSE
      LET cur == CHOOSE x \in st.priority_queue :
                     \A y \in st.priority_queue :
                         x = y \/ x[1] < y[1] \/ (x[1] = y[1] /\ x[2] < y[2])
          queue1 == st.priority_queue \ {cur}
          current_distance == cur[1]
          current_station == cur[2]
      IN
      IF current_station \in st.visited
      THEN distance_loop(G, station2, [st EXCEPT !.priority_queue = queue1])
      ELSE IF current_station = station2 THEN current_distance
      ELSE
        LET visited1 == st.visited \cup {current_station}
            nbrs == get_neighbors(G, current_station) \ visited1
            better == {n \in nbrs : current_distance + 1 < st.distances[n]}
        IN
        IF \E n \in nbrs : n \notin DOMAIN st.distances THEN Infinity
        ELSE distance_loop(G, station2,
               [priority_queue |-> queue1 \cup {<<current_distance + 1, n>> : n \in better},
                visited |-> visited1,
                distances |-> [x \in DOMAIN st.distances |->
                                 IF x \in better THEN current_distance + 1
                                 ELSE st.distances[x]]])

(* distance in edges, Infinity when there is no path *)
_calculate_distance_between_stations(G, station1, station2) ==
    IF station1 = station2 THEN 0
    ELSE IF station1 \notin G.nodes \/ station2 \notin G.nodes THEN Infinity
    ELSE distance_loop(G, station2,
           [priority_queue |-> {<<0, station1>>},
            visited |-> {},
            distances |-> [n \in G.nodes |-> IF n = station1 THEN 0 ELSE Infinity]])

(* stations with exactly one neighbour on the line *)
_get_line_terminus(G, line) ==
    LET on_line(a) == {b \in get_neighbors(G, a) :
                          get_line_between_stations(G, a, b) = line}
        line_stations == {a \in G.nodes : on_line(a) # {}}
                            \cup UNION {on_line(a) : a \in G.nodes}
    IN  {a \in line_stations : Cardinality(on_line(a)) = 1}

(* the terminus kept by the loop over the termini: one at the least        *)
(* distance from the station (the distance to the destination is the same  *)
(* for every terminus); none when no terminus reaches both stations        *)
best_terminus_set(G, line, from_station, to_station) ==
    LET terminus_stations == _get_line_terminus(G, line)
        total(t) == _calculate_distance_between_stations(G, t, from_station)
                      + _calculate_distance_between_stations(G, from_station, to_station)
        reach == {t \in terminus_stations : total(t) < Infinity}
    IN  {t \in reach : \A u \in reach : total(t) <= total(u)}

_calculate_travel_time_from_terminus(G, line, from_station, to_station) ==
    LET best == best_terminus_set(G, line, from_station, to_station)
    IN  IF Cardinality(_get_line_terminus(G, line)) < 2 THEN DefaultTerminusTime
        ELSE IF best = {} THEN DefaultTerminusTime
        ELSE MinutesPerUnit
               * _calculate_distance_between_stations(G, CHOOSE t \in best : TRUE,
                                                      from_station)

WalkLines == {"Correspondance", "Correspondance à pied", "transfer", "?"}

(* get_next_departure once the range r that holds current_time is known:  *)
(* the first departure of the range from the terminus (on the day before   *)
(* when the range began before midnight), then the while loop over the     *)
(* departures: departure_number runs from 0 and the loop stops at the      *)
(* first one whose arrival at the station is after current_time, or gives  *)
(* up once departure_number exceeds 1000                                   *)
departure_loop(self, line, current_time, r, travel_time_from_terminus) ==
    LET range_start_datetime ==
            combine(date_of(current_time), _parse_time(r.start))
              - (IF _parse_time(r.start) > time_of(current_time)
                 THEN timedelta(1, 0) ELSE 0)
        departure_from_terminus(n) == range_start_datetime + timedelta(0, n * r.frequency)
        arrival_at_station(n) ==
            departure_from_terminus(n) + timedelta(0, travel_time_from_terminus)
        stops_at(n) == arrival_at_station(n) > current_time
    IN  IF ~\E n \in 0 .. MaxDepartureNumber : stops_at(n)
        THEN _find_next_service_time(self, line, current_time)
        ELSE LET departure_number ==
                     CHOOSE n \in 0 .. MaxDepartureNumber :
                         stops_at(n) /\ \A m \in 0 .. n - 1 : ~stops_at(m)
             IN  IF _time_in_range(time_of(departure_from_terminus(departure_number)),
                                   _parse_time(r.start), _parse_time(r.end))
                 THEN Some(arrival_at_station(departure_number))
                 ELSE _find_next_service_time(self, line, current_time)

(* mutant: the test of departure_number is made before the increment *)
departure_iterations_late(current_time, r, travel_time_from_terminus) ==
    LET range_start_datetime ==
            combine(date_of(current_time), _parse_time(r.start))
              - (IF _parse_time(r.start) > time_of(current_time)
                 THEN timedelta(1, 0) ELSE 0)
        stops_at(n) ==
            range_start_datetime + timedelta(0, n * r.frequency)
                + timedelta(0, travel_time_from_terminus) > current_time
    IN  IF ~\E n \in 0 .. MaxDepartureNumber : stops_at(n)
        THEN MaxDepartureNumber + 2
        ELSE 1 + CHOOSE n \in 0 .. MaxDepartureNumber :
                     stops_at(n) /\ \A m \in 0 .. n - 1 : ~stops_at(m)

(* number of iterations of the while loop of get_next_departure: one for   *)
(* each departure_number up to the one the loop stops at, or up to 1000    *)
(* when it stops at none (the increment to 1001 ends the loop)             *)
departure_iterations(current_time, r, travel_time_from_terminus) ==
    LET range_start_datetime ==
            combine(date_of(current_time), _parse_time(r.start))
              - (IF _parse_time(r.start) > time_of(current_time)
                 THEN timedelta(1, 0) ELSE 0)
        stops_at(n) ==
            range_start_datetime + timedelta(0, n * r.frequency)
                + timedelta(0, travel_time_from_terminus) > current_time
    IN  IF ~\E n \in 0 .. MaxDepartureNumber : stops_at(n)
        THEN MaxDepartureNumber + 1
        ELSE 1 + CHOOSE n \in 0 .. MaxDepartureNumber :
                     stops_at(n) /\ \A m \in 0 .. n - 1 : ~stops_at(m)

(* iterations of the loop in a call of get_next_departure; none when the   *)
(* call returns before the loop                                            *)
loop_iterations(self, line, current_time, from_station, to_station, G, with_graph) ==
    IF ~get_frequency_for_time(self, line, time_of(current_time)).some THEN 0
    ELSE departure_iterations(current_time,
             self.frequencies[line][first_range(self, line, time_of(current_time))],
             IF with_graph /\ line \notin WalkLines
             THEN _calculate_travel_time_from_terminus(G, line, from_station, to_station)
             ELSE 0)

(* G is the graph passed; with_graph is FALSE when the caller passes none *)
get_next_departure(self, line, current_time, from_station, to_station, G, with_graph) ==
    IF ~get_frequency_for_time(self, line, time_of(current_time)).some
    THEN _find_next_service_time(self, line, current_time)
    ELSE departure_loop(self, line, current_time,
             self.frequencies[line][first_range(self, line, time_of(current_time))],
             IF with_graph /\ line \notin WalkLines
             THEN _calculate_travel_time_from_terminus(G, line, from_station, to_station)
             ELSE 0)

GroupedWalkLines == {"Correspondance", "Correspondance à pied", "transfer", "?", "Transfer"}

(* one iteration of the loop of _group_segments_by_line; current_group is  *)
(* the empty sequence when it is None.  are_same_logical_line is the one   *)
(* of the route segmenter, written a second time in the source.            *)
group_segment(acc, segment) ==
    LET line == IF segment.line \in UnknownLines THEN "Correspondance" ELSE segment.line
    IN  IF acc.current_group # <<>>
             /\ are_same_logical_line(acc.current_group[1].line, line)
             /\ line # "Correspondance"
        THEN [acc EXCEPT !.current_group =
                 <<[acc.current_group[1] EXCEPT
                      !.to_station = segment.to_station,
                      !.total_travel_time = @ + segment.travel_time,
                      !.stops = @ + 1,
                      !.segments = Append(@, segment)]>>]
        ELSE [grouped |-> acc.grouped \o acc.current_group,
              current_group |-> <<[line |-> line,
                                   from_station |-> segment.from_station,
                                   to_station |-> segment.to_station,
                                   total_travel_time |-> segment.travel_time,
                                   stops |-> 1,
                                   segments |-> <<segment>>]>>]

RECURSIVE group_segments_loop(_, _, _)
group_segments_loop(path_segments, i, acc) ==
    IF i > Len(path_segments) THEN acc
    ELSE group_segments_loop(path_segments, i + 1, group_segment(acc, path_segments[i]))

_group_segments_by_line(path_segments) ==
    LET acc == group_segments_loop(path_segments, 1,
                                   [grouped |-> <<>>, current_group |-> <<>>])
    IN  acc.grouped \o acc.current_group

(* Durations in minutes are Python floats.  Float(s, d) is the float met   *)
(* for a duration of s seconds: it is s / 60 itself wherever the rounding  *)
(* to one decimal does not depend on more, and d = 0.  When s / 60 lies    *)
(* halfway between two tenths and has no exact binary form (s / 60 is      *)
(* m / 20 with m odd and not a multiple of 5), the float is beside it: by  *)
(* d fifths of the gap between two neighbouring floats, above it for       *)
(* d > 0 and below it for d < 0.                                           *)
Float(s, d) == [s |-> s, d |-> d]

is_half_tenth(s) == s % 6 = 3

is_binary(s) == s % 15 = 0

is_inexact_half(s) == is_half_tenth(s) /\ ~is_binary(s)

twentieths(s) == s \div 3

(* binary exponent of m / 20, counted from 2^-5 *)
exponent(m) == CHOOSE e \in 0 .. 24 : 20 * 2^e <= 32 * m /\ 32 * m < 20 * 2^(e + 1)

(* 2^k modulo 5, and modulo 10 for k >= 1 *)
pow2mod5(k) == <<1, 2, 4, 3>>[(k % 4) + 1]

pow2mod10(k) == <<6, 2, 4, 8>>[(k % 4) + 1]

(* m / 20 is I + f / 5 gaps of its binade (53-bit mantissa): f, and I odd *)
fifths(m) == ((m % 5) * pow2mod5(55 - exponent(m))) % 5

mantissa_odd(m) ==
    LET x == ((m % 10) * pow2mod10(55 - exponent(m))) % 10
    IN  ((x - (x % 5)) \div 5) % 2 = 1

(* timedelta.total_seconds() / 60: the float nearest to s / 60 *)
total_minutes(s) ==
    IF is_inexact_half(s)
    THEN Float(s, IF fifths(twentieths(s)) <= 2 THEN -fifths(twentieths(s))
                  ELSE 5 - fifths(twentieths(s)))
    ELSE Float(s, 0)

(* a + b where b is a whole number of minutes or a is 0 (of the waits of a *)
(* journey only the first can be a part of a minute): the exact sum        *)
(* rounded to the floats of the binade of the result, ties to the even     *)
(* mantissa                                                                *)
float_add(a, b) ==
    IF a.s = 0 THEN b
    ELSE IF ~is_inexact_half(a.s) THEN Float(a.s + b.s, 0)
    ELSE LET m == twentieths(a.s + b.s)
             gap == 2^(exponent(m) - exponent(twentieths(a.s)))
             twice == 2 * (fifths(m) * gap + a.d)
         IN  IF gap = 1 THEN Float(a.s + b.s, a.d)
             ELSE IF twice < 5 * gap \/ (twice = 5 * gap /\ ~mantissa_odd(m))
             THEN Float(a.s + b.s, -fifths(m))
             ELSE Float(a.s + b.s, 5 - fifths(m))

(* round(x, 1), in tenths: the tenth nearest to the float, the even one    *)
(* when the float is exactly halfway                                       *)
round_1(x) ==
    IF ~is_half_tenth(x.s) THEN (x.s + 3) \div 6
    ELSE IF is_binary(x.s)
    THEN (IF (x.s \div 6) % 2 = 0 THEN x.s \div 6 ELSE x.s \div 6 + 1)
    ELSE IF x.d > 0 THEN x.s \div 6 + 1 ELSE x.s \div 6

(* strftime("%H:%M"): the minute of the day *)
strftime(datetime) == time_of(datetime) \div SecondsPerMinute

(* a segment of walking: no wait, the clock advances by the walk *)
schedule_walk(acc, segment_group) ==
    [acc EXCEPT
       !.segments = Append(@,
           [type |-> "transfer",
            line |-> "Correspondance à pied",
            departure_time |-> strftime(acc.current_time),
            arrival_time |->
                strftime(acc.current_time + timedelta(0, segment_group.total_travel_time)),
            waiting_time |-> 0,
            travel_time |-> segment_group.total_travel_time,
            from_station |-> segment_group.from_station,
            to_station |-> segment_group.to_station,
            stops |-> segment_group.stops]),
       !.current_time = @ + timedelta(0, segment_group.total_travel_time)]

(* a segment of metro, given what get_next_departure returned *)
schedule_metro(acc, segment_group, next_departure) ==
    IF ~next_departure.some THEN [acc EXCEPT !.error = "ne circule pas"]
    ELSE [acc EXCEPT
            !.segments = Append(@,
                [type |-> "metro",
                 line |-> segment_group.line,
                 departure_time |-> strftime(next_departure.val),
                 arrival_time |->
                     strftime(next_departure.val
                                + timedelta(0, segment_group.total_travel_time)),
                 waiting_time |->
                     round_1(total_minutes(next_departure.val - acc.current_time)),
                 travel_time |-> segment_group.total_travel_time,
                 from_station |-> segment_group.from_station,
                 to_station |-> segment_group.to_station,
                 stops |-> segment_group.stops]),
            !.total_waiting_time =
                float_add(@, total_minutes(next_departure.val - acc.current_time)),
            !.current_time =
                next_departure.val + timedelta(0, segment_group.total_travel_time)]

(* one iteration of the loop over the grouped segments; after an error the *)
(* function has returned                                                   *)
schedule_group(self, G, with_graph, acc, segment_group) ==
    IF acc.error # "" THEN acc
    ELSE IF segment_group.line \in GroupedWalkLines
    THEN schedule_walk(acc, segment_group)
    ELSE schedule_metro(acc, segment_group,
             get_next_departure(self, segment_group.line, acc.current_time,
                                segment_group.from_station, segment_group.to_station,
                                G, with_graph))

RECURSIVE schedule_loop(_, _, _, _, _, _)
schedule_loop(self, G, with_graph, grouped_segments, i, acc) ==
    IF i > Len(grouped_segments) THEN acc
    ELSE schedule_loop(self, G, with_graph, grouped_segments, i + 1,
                       schedule_group(self, G, with_graph, acc, grouped_segments[i]))

NoJourney ==
    [kind |-> "not_called", departure_time |-> 0, arrival_time |-> 0,
     total_travel_time |-> 0, total_waiting_time |-> 0, segments |-> <<>>]

journey_loop(self, path, departure_time, G, with_graph) ==
    schedule_loop(self, G, with_graph, _group_segments_by_line(path), 1,
                  [segments |-> <<>>, current_time |-> departure_time,
                   total_waiting_time |-> Float(0, 0), error |-> ""])

(* mutant: the total runs from the departure of the first segment *)
calculate_journey_time_with_schedule_first(self, path, departure_time, G, with_graph) ==
    LET acc == journey_loop(self, path, departure_time, G, with_graph)
    IN  IF acc.error # "" THEN [NoJourney EXCEPT !.kind = "error"]
        ELSE [kind |-> "ok",
              departure_time |-> strftime(departure_time),
              arrival_time |-> strftime(acc.current_time),
              total_travel_time |->
                  IF acc.segments = <<>> THEN 0
                  ELSE round_1(total_minutes(acc.current_time - departure_time))
                         - acc.segments[1].waiting_time,
              total_waiting_time |-> round_1(acc.total_waiting_time),
              segments |-> acc.segments]

(* route_info is {"path": path}; the result is an itinerary or {"error"} *)
calculate_journey_time_with_schedule(self, path, departure_time, G, with_graph) ==
    LET acc == journey_loop(self, path, departure_time, G, with_graph)
    IN  IF acc.error # "" THEN [NoJourney EXCEPT !.kind = "error"]
        ELSE [kind |-> "ok",
              departure_time |-> strftime(departure_time),
              arrival_time |-> strftime(acc.current_time),
              total_travel_time |->
                  round_1(total_minutes(acc.current_time - departure_time)),
              total_waiting_time |-> round_1(acc.total_waiting_time),
              segments |-> acc.segments]

----------------------------------------------------------------------------
(* Inputs of the graph build: the content of the GTFS tables *)

RECURSIVE SubsetsUpTo(_, _)
SubsetsUpTo(S, k) ==
    IF k = 0 THEN {{}}
    ELSE LET prev == SubsetsUpTo(S, k - 1)
         IN  prev \cup {p \cup {x} : p \in prev, x \in S}

(* a row of the unique-edge set (sorted stop pair and route id) or of      *)
(* transfers.txt (route "transfer": any ordered pair, a stop with itself   *)
(* included)                                                               *)
EdgeRows == {[from |-> a, to |-> b, route |-> r] :
                a \in Stations, b \in Stations, r \in RouteIds}

DataRows ==
    {x \in EdgeRows : x.from < x.to}
        \cup {[from |-> a, to |-> b, route |-> "transfer"] : a \in Stations, b \in Stations}

EdgesOf(rows) == {<<x.from, x.to, x.route>> : x \in {y \in rows : y.route # "transfer"}}

TransfersOf(rows) == {<<x.from, x.to>> : x \in {y \in rows : y.route = "transfer"}}

PairsOf(edges) == {<<e[1], e[2]>> : e \in edges}

PickChoices(edges) ==
    {pick \in [PairsOf(edges) -> RouteIds] :
        \A pr \in PairsOf(edges) : <<pr[1], pr[2], pick[pr]>> \in edges}

(* stop_name column: stops 1 and 2 are two platforms of one station *)
stop_name ==
    [s \in Stations |-> IF s \in {1, 2} THEN "Chatelet"
                        ELSE IF s = 3 THEN "Nation" ELSE "Bastille"]

(* stops.txt: every stop is a regular stop; all at one point, or 1 km apart *)
StopTables == {[s \in Stations |-> [name |-> stop_name[s], km |-> s * k]] : k \in {0, 1}}

----------------------------------------------------------------------------
(* State machine of one route request against the built graph.            *)
(*   graph : the UniqueEdgesMetroGraph held by the service                 *)
(*   call  : the request being served (start, end, prefer_line_continuity) *)
(*   ret   : what each PathFinder entry point returned for that request    *)

NotCalled == [kind |-> "not_called", path |-> <<>>, distance |-> 0]

NoTrace == [astar |-> NotCalled, ran_dijkstra |-> FALSE, dijkstra |-> NotCalled,
            result |-> NotCalled]

NoList == [kind |-> "not_called", paths |-> <<>>, max_paths |-> 0]

NoRet == [astar |-> NotCalled, dijkstra |-> NotCalled, optimal |-> NoTrace,
          multiple |-> NoList]

Idle == [op |-> "idle", start |-> 0, end |-> 0, prefer |-> FALSE]

Init ==
    /\ \E stops \in StopTables, rows \in SubsetsUpTo(DataRows, MaxRows) :
          \E pick \in PickChoices(EdgesOf(rows)) :
             graph = build_graph(stops, EdgesOf(rows), pick, TransfersOf(rows))
    /\ call = Idle
    /\ ret = NoRet

(* a request arrives with its two station ids (ids of the graph or not) *)
Request(a, b, p) ==
    /\ call.op = "idle"
    /\ call' = [op |-> "search", start |-> a, end |-> b, prefer |-> p]
    /\ UNCHANGED <<graph, ret>>

AStar ==
    /\ call.op = "search"
    /\ ret = NoRet
    /\ ret' = [ret EXCEPT !.astar =
                 a_star_pathfinding(graph, call.start, call.end, call.prefer)]
    /\ UNCHANGED <<graph, call>>

Dijkstra ==
    /\ call.op = "search"
    /\ ret.dijkstra = NotCalled /\ ret.optimal = NoTrace /\ ret.multiple = NoList
    /\ ret' = [ret EXCEPT !.dijkstra =
                 dijkstra_pathfinding(graph, call.start, call.end, call.prefer)]
    /\ UNCHANGED <<graph, call>>

FindOptimalPath ==
    /\ call.op = "search"
    /\ ret = NoRet
    /\ ret' = [ret EXCEPT !.optimal =
                 find_optimal_path_trace(graph, call.start, call.end, call.prefer)]
    /\ UNCHANGED <<graph, call>>

(* find_multiple_paths takes no prefer_line_continuity argument *)
FindMultiplePaths(k) ==
    /\ call.op = "search"
    /\ call.prefer
    /\ ret = NoRet
    /\ ret' = [ret EXCEPT !.multiple =
                 [find_multiple_paths(graph, call.start, call.end, k)
                    EXCEPT !.max_paths = k]]
    /\ UNCHANGED <<graph, call>>

Next ==
    \/ \E a \in Stations, b \in Stations, p \in BOOLEAN : Request(a, b, p)
    \/ AStar
    \/ Dijkstra
    \/ FindOptimalPath
    \/ \E k \in 0 .. MaxPathsArg : FindMultiplePaths(k)

Spec == Init /\ [][Next]_vars

----------------------------------------------------------------------------
(* State machine of one call of process_routes_for_frontend on the built   *)
(* graph.  The caller may hand over any list of raw routes.                *)
(*   call : the list of raw routes {"path", "distance"} passed             *)
(*   ret  : the list of processed routes returned                          *)

(* longest path of a raw route *)
MaxPathLen == 3

PathsUpTo(n) == UNION {[1 .. k -> Stations] : k \in 0 .. n}

(* a raw route over a path, one cost unit per edge *)
raw_route(path) ==
    [path |-> path,
     distance |-> IF Len(path) > 1 THEN (Len(path) - 1) * BaseEdgeCost ELSE 0]

NoRoutes == [kind |-> "not_called", routes |-> <<>>]

InitSegment ==
    /\ \E stops \in StopTables, rows \in SubsetsUpTo(DataRows, MaxRows) :
          \E pick \in PickChoices(EdgesOf(rows)) :
             graph = build_graph(stops, EdgesOf(rows), pick, TransfersOf(rows))
    /\ call = Idle
    /\ ret = NoRoutes

ProcessRoutes(routes) ==
    /\ call.op = "idle"
    /\ call' = [op |-> "process_routes_for_frontend", routes |-> routes]
    /\ ret' = [kind |-> "list", routes |-> process_routes_for_frontend(graph, routes)]
    /\ UNCHANGED graph

NextSegment ==
    /\ call.op = "idle"
    /\ \E path \in PathsUpTo(MaxPathLen) : ProcessRoutes(<<raw_route(path)>>)

SpecSegment == InitSegment /\ [][NextSegment]_vars

----------------------------------------------------------------------------
(* State machine of one call of deduplicate_routes on a list of processed  *)
(* routes.                                                                 *)
(*   call : the list of processed routes passed                            *)
(*   ret  : the list returned                                              *)

(* routes in the list passed *)
MaxRoutes == 2

(* the segments routes are made of: a ride, the same ride counted with two *)
(* stops, and a walk                                                       *)
SegmentChoices ==
    {[line |-> "1", from |-> "Chatelet", to |-> "Nation", stops |-> 1, type |-> "normal"],
     [line |-> "1", from |-> "Chatelet", to |-> "Nation", stops |-> 2, type |-> "normal"],
     [line |-> "Correspondance à pied", from |-> "Nation", to |-> "Bastille",
      stops |-> 1, type |-> "transfer"]}

(* n segments, the ride and the walk in turn *)
alternating(n, first) ==
    [i \in 1 .. n |->
        IF (i % 2 = 1) = first
        THEN [line |-> "1", from |-> "Chatelet", to |-> "Nation", stops |-> 1,
              type |-> "normal"]
        ELSE [line |-> "Correspondance à pied", from |-> "Nation", to |-> "Bastille",
              stops |-> 1, type |-> "transfer"]]

(* segment lists: every list short enough for one run of identical        *)
(* segments, and long ones around the limit                                *)
SegmentLists ==
    UNION {[1 .. n -> SegmentChoices] : n \in 0 .. MaxIdenticalRun + 1}
      \cup {alternating(n, first) : n \in MaxSegments - 1 .. MaxSegments + 2,
                                    first \in BOOLEAN}

transfers_of(segments) ==
    LET rides == Len(SelectSeq(segments, LAMBDA x : x.type # "transfer"))
        walks == Len(SelectSeq(segments, LAMBDA x : x.type = "transfer"))
    IN  (IF rides > 1 THEN rides - 1 ELSE 0) + walks

ProcessedRoutes ==
    {[duration |-> 2 * Len(segs), transfers |-> transfers_of(segs), segments |-> segs] :
        segs \in SegmentLists}

InitDedup ==
    /\ graph = build_graph([s \in Stations |-> [name |-> stop_name[s], km |-> 0]],
                           {}, [pr \in {} |-> "R1"], {})
    /\ call = Idle
    /\ ret = NoRoutes

DeduplicateRoutes(routes) ==
    /\ call.op = "idle"
    /\ call' = [op |-> "deduplicate_routes", routes |-> routes]
    /\ ret' = [kind |-> "list", routes |-> deduplicate_routes(routes)]
    /\ UNCHANGED graph

NextDedup ==
    /\ call.op = "idle"
    /\ \E n \in 0 .. MaxRoutes : \E routes \in [1 .. n -> ProcessedRoutes] :
          DeduplicateRoutes(routes)

SpecDedup == InitDedup /\ [][NextDedup]_vars

----------------------------------------------------------------------------
(* State machine of one call of calculate_journey_time_with_schedule.      *)
(*   graph : the graph of the service                                      *)
(*   call  : the detailed path, the departure time wished, and whether the *)
(*           graph is passed                                               *)
(*   ret   : the itinerary returned, or the error                          *)

(* segments of the detailed path *)
MaxLegs == 2

(* minutes of a walking transfer in the detailed path *)
WalkTime == 3

(* unique edges between neighbouring stops 1 - 2 - 3 - 4 *)
LineRows == {x \in DataRows : x.route # "transfer" /\ x.to = x.from + 1}

(* the calculator with the table of one range for line "1" *)
SingleRangeCalculator ==
    [frequencies |->
        [l \in {"1"} |-> << [start |-> <<5, 30>>, end |-> <<23, 0>>, frequency |-> 5] >>]]

Calculators == {MetroScheduleCalculator, SingleRangeCalculator}

(* seconds past the minute of the departure time wished *)
DepartureSeconds == {0, 3, 39}

(* departure times wished, on day 0: around the limits of the ranges *)
DepartureTimes ==
    {_parse_time(hm) + sec :
        hm \in {<<0, 0>>, <<0, 39>>, <<0, 40>>, <<5, 29>>, <<5, 30>>,
                <<7, 29>>, <<12, 0>>, <<20, 30>>, <<23, 30>>, <<23, 59>>},
        sec \in DepartureSeconds}

(* walks of k legs along the stops, up or down *)
Walks(k) ==
    {w \in [1 .. k + 1 -> Stations] :
        \/ \A i \in 1 .. k : w[i + 1] = w[i] + 1
        \/ \A i \in 1 .. k : w[i + 1] = w[i] - 1}

(* line of a leg: a line of the table, a walk, or no line given *)
LegLines == {"1", "2", "Correspondance", "Unknown"}

detailed_path(w, lines) ==
    [i \in 1 .. Len(lines) |->
        [from_station |-> w[i],
         to_station |-> w[i + 1],
         travel_time |-> IF lines[i] = "Correspondance" THEN WalkTime
                         ELSE DefaultTravelTime,
         line |-> lines[i]]]

DetailedPaths ==
    UNION {{detailed_path(w, lines) : w \in Walks(k), lines \in [1 .. k -> LegLines]} :
              k \in 0 .. MaxLegs}

InitSchedule ==
    /\ \E rows \in SubsetsUpTo(LineRows, MaxRows) :
          \E pick \in PickChoices(EdgesOf(rows)) :
             graph = build_graph([s \in Stations |-> [name |-> stop_name[s], km |-> s]],
                                 EdgesOf(rows), pick, {})
    /\ call = Idle
    /\ ret = NoJourney

CalculateJourney(self, path, departure_time, with_graph) ==
    /\ call.op = "idle"
    /\ call' = [op |-> "calculate_journey_time_with_schedule", self |-> self,
                path |-> path, departure_time |-> departure_time,
                with_graph |-> with_graph]
    /\ ret' = calculate_journey_time_with_schedule(self, path, departure_time,
                                                    graph, with_graph)
    /\ UNCHANGED graph

(* get_next_departure called with a line and a time only (with_graph is    *)
(* FALSE, the stations are None), as the status of the lines is worked     *)
(* out, or with the stations of a segment and the graph                    *)
GetNextDeparture(self, line, current_time, from_station, to_station, with_graph) ==
    /\ call.op = "idle"
    /\ call' = [op |-> "get_next_departure", self |-> self, line |-> line,
                current_time |-> current_time, from_station |-> from_station,
                to_station |-> to_station, with_graph |-> with_graph]
    /\ ret' = [kind |-> "departure",
               next |-> get_next_departure(self, line, current_time, from_station,
                                           to_station, graph, with_graph),
               iterations |-> loop_iterations(self, line, current_time, from_station,
                                              to_station, graph, with_graph)]
    /\ UNCHANGED graph

NextSchedule ==
    /\ call.op = "idle"
    /\ \/ \E self \in Calculators, path \in DetailedPaths, t \in DepartureTimes,
              g \in BOOLEAN :
              CalculateJourney(self, path, t, g)
       \/ \E self \in Calculators, line \in LegLines \ WalkLines, t \in DepartureTimes :
              \/ GetNextDeparture(self, line, t, 0, 0, FALSE)
              \/ \E from_station \in Stations, to_station \in Stations :
                    GetNextDeparture(self, line, t, from_station, to_station, TRUE)

SpecSchedule == InitSchedule /\ [][NextSchedule]_vars

----------------------------------------------------------------------------
(* State machine of one call of get_next_departure with a frequency table  *)
(* that may be malformed.                                                  *)

(* a table with a headway of 0 (no departure of the range is ever after    *)
(* the first) and a range of a whole day with a headway of 1 minute (more  *)
(* than 1000 departures)                                                   *)
MalformedCalculator ==
    [frequencies |->
        [l \in {"1", "2"} |->
            IF l = "1"
            THEN << [start |-> <<5, 30>>, end |-> <<23, 0>>, frequency |-> 0] >>
            ELSE << [start |-> <<0, 0>>, end |-> <<23, 59>>, frequency |-> 1] >>]]

NextMalformed ==
    /\ call.op = "idle"
    /\ \E self \in Calculators \cup {MalformedCalculator}, line \in LegLines \ WalkLines,
          t \in DepartureTimes :
          \/ GetNextDeparture(self, line, t, 0, 0, FALSE)
          \/ \E from_station \in Stations, to_station \in Stations :
                GetNextDeparture(self, line, t, from_station, to_station, TRUE)

SpecMalformed == InitSchedule /\ [][NextMalformed]_vars

----------------------------------------------------------------------------
(* State machine of the lazy loading of the graph (main.py): the requests  *)
(* are served by the threads of the server, and each one calls             *)
(* get_unique_graph, whose statements interleave with those of the others. *)
(*   graph : the global unique_graph (0 for None, or the index of an       *)
(*           object), the UniqueEdgesMetroGraph objects created so far,    *)
(*           and the content of the GTFS files                             *)
(*   call  : for each thread, the statement it is at, self, the object its *)
(*           build_graph runs on, and raised, whether the try block of     *)
(*           this call raised                                              *)
(*   ret   : for each thread, what get_unique_graph returned to it and     *)
(*           what the request then read in it                              *)

(* threads serving requests *)
MaxThreads == 2

(* UniqueEdgesMetroGraph objects created *)
MaxBuilds == 2

Threads == 1 .. MaxThreads

(* content of the GTFS files: no trip at all, one edge, one edge and a     *)
(* transfer to a stop that no line serves                                  *)
GtfsChoices ==
    {{},
     {[from |-> 1, to |-> 2, route |-> "R1"]},
     {[from |-> 1, to |-> 2, route |-> "R1"], [from |-> 2, to |-> 3, route |-> "transfer"]}}

EmptyMap == [x \in {} |-> x]

(* UniqueEdgesMetroGraph.__init__ *)
NewGraph == [stations |-> EmptyMap, nodes |-> {}, adjacency |-> EmptyMap, built |-> FALSE]

(* the statements of build_graph *)
BuildSteps == {"build_load", "build_edges", "build_transfers", "build_nodes"}

(* build_graph is running on the object *)
InProgress(obj) == \E t \in Threads : call[t].pc \in BuildSteps /\ call[t].self = obj

(* the graph as build_graph leaves it *)
BuiltGraph ==
    build_graph(graph.stops, EdgesOf(graph.rows),
                [pr \in PairsOf(EdgesOf(graph.rows)) |-> "R1"], TransfersOf(graph.rows))

(* adjacency after step 8: the unique edges only *)
edges_adjacency ==
    build_graph(graph.stops, EdgesOf(graph.rows),
                [pr \in PairsOf(EdgesOf(graph.rows)) |-> "R1"], {}).adjacency

(* adjacency after step 9, before the isolated nodes are deleted *)
transfers_adjacency ==
    [a \in DOMAIN BuiltGraph.adjacency
             \cup {t[1] : t \in TransfersOf(graph.rows)}
             \cup {t[2] : t \in TransfersOf(graph.rows)} |->
        IF a \in DOMAIN BuiltGraph.adjacency THEN BuiltGraph.adjacency[a] ELSE EmptyMap]

NoGraph == [kind |-> "not_called", g |-> 0, complete |-> FALSE, read |-> FALSE,
            mid_flight |-> FALSE, nodes |-> {}]

InitLoad ==
    /\ \E rows \in GtfsChoices :
          graph = [unique_graph |-> 0, heap |-> <<>>, rows |-> rows,
                   stops |-> [s \in Stations |-> [name |-> stop_name[s], km |-> s]]]
    /\ call = [t \in Threads |-> [pc |-> "idle", self |-> 0, raised |-> FALSE]]
    /\ ret = [t \in Threads |-> NoGraph]

Goto(t, pc) == call' = [call EXCEPT ![t].pc = pc]

(* a request arrives and its handler calls get_unique_graph *)
Enter(t) ==
    /\ call[t].pc = "idle"
    /\ Len(graph.heap) + Cardinality({u \in Threads : call[u].pc \in {"line44", "line47"}})
          < MaxBuilds
    /\ call' = [call EXCEPT ![t] = [pc |-> "line44", self |-> 0, raised |-> FALSE]]
    /\ ret' = [ret EXCEPT ![t] = NoGraph]
    /\ UNCHANGED graph

(* if unique_graph is None *)
TestNone(t) ==
    /\ call[t].pc = "line44"
    /\ Goto(t, IF graph.unique_graph = 0 THEN "line47" ELSE "line53")
    /\ UNCHANGED <<graph, ret>>

(* unique_graph = UniqueEdgesMetroGraph("backend/graph") *)
Create(t) ==
    /\ call[t].pc = "line47"
    /\ graph' = [graph EXCEPT !.heap = Append(@, NewGraph),
                              !.unique_graph = Len(graph.heap) + 1]
    /\ Goto(t, "line48")
    /\ UNCHANGED ret

(* unique_graph.build_graph(): the global is read again; None has no       *)
(* build_graph and raises AttributeError                                   *)
StartBuild(t) ==
    /\ call[t].pc = "line48"
    /\ call' = [call EXCEPT ![t] =
                  IF graph.unique_graph = 0
                  THEN [pc |-> "line52", self |-> 0, raised |-> TRUE]
                  ELSE [pc |-> "build_load", self |-> graph.unique_graph,
                        raised |-> FALSE]]
    /\ UNCHANGED <<graph, ret>>

(* steps 1 to 7: the files are read; with no unique edge build_graph       *)
(* returns at once                                                         *)
BuildLoad(t) ==
    /\ call[t].pc = "build_load"
    /\ IF EdgesOf(graph.rows) = {}
       THEN /\ graph' = [graph EXCEPT !.heap[call[t].self].built = TRUE]
            /\ Goto(t, "line53")
       ELSE /\ graph' = [graph EXCEPT !.heap[call[t].self].stations = graph.stops]
            /\ Goto(t, "build_edges")
    /\ UNCHANGED ret

(* reading a file raises *)
BuildFails(t) ==
    /\ call[t].pc = "build_load"
    /\ call' = [call EXCEPT ![t].pc = "line52", ![t].raised = TRUE]
    /\ UNCHANGED <<graph, ret>>

(* step 8: self.adjacency = {} and the entries of the unique edges *)
BuildEdges(t) ==
    /\ call[t].pc = "build_edges"
    /\ graph' = [graph EXCEPT !.heap[call[t].self].adjacency = edges_adjacency]
    /\ Goto(t, "build_transfers")
    /\ UNCHANGED ret

(* step 9: the entries of the transfers *)
BuildTransfers(t) ==
    /\ call[t].pc = "build_transfers"
    /\ graph' = [graph EXCEPT !.heap[call[t].self].adjacency = transfers_adjacency]
    /\ Goto(t, "build_nodes")
    /\ UNCHANGED ret

(* self.nodes and the deletion of the isolated nodes; build_graph returns *)
BuildNodes(t) ==
    /\ call[t].pc = "build_nodes"
    /\ graph' = [graph EXCEPT !.heap[call[t].self] =
                    [stations |-> BuiltGraph.stations, nodes |-> BuiltGraph.nodes,
                     adjacency |-> BuiltGraph.adjacency, built |-> TRUE]]
    /\ Goto(t, "line53")
    /\ UNCHANGED ret

(* except Exception: unique_graph = None *)
Except(t) ==
    /\ call[t].pc = "line52"
    /\ graph' = [graph EXCEPT !.unique_graph = 0]
    /\ Goto(t, "line53")
    /\ UNCHANGED ret

(* return unique_graph; the handler answers 500 when it is None *)
Return(t) ==
    /\ call[t].pc = "line53"
    /\ ret' = [ret EXCEPT ![t] =
                 [NoGraph EXCEPT
                    !.kind = "returned",
                    !.g = graph.unique_graph,
                    !.complete = /\ graph.unique_graph # 0
                                 /\ graph.heap[graph.unique_graph].built
                                 /\ ~InProgress(graph.unique_graph)]]
    /\ Goto(t, IF graph.unique_graph = 0 THEN "idle" ELSE "search")
    /\ UNCHANGED graph

(* the handler reads nodes and adjacency of the graph it obtained *)
Search(t) ==
    /\ call[t].pc = "search"
    /\ ret' = [ret EXCEPT ![t].read = TRUE,
                          ![t].mid_flight = InProgress(ret[t].g),
                          ![t].nodes = graph.heap[ret[t].g].nodes]
    /\ Goto(t, "idle")
    /\ UNCHANGED graph

NextLoad ==
    \E t \in Threads :
        \/ Enter(t)
        \/ TestNone(t)
        \/ Create(t)
        \/ StartBuild(t)
        \/ BuildLoad(t)
        \/ BuildFails(t)
        \/ BuildEdges(t)
        \/ BuildTransfers(t)
        \/ BuildNodes(t)
        \/ Except(t)
        \/ Return(t)
        \/ Search(t)

SpecLoad == InitLoad /\ [][NextLoad]_vars

----------------------------------------------------------------------------
(* State machine of one call of a search (a_star_pathfinding,              *)
(* dijkstra_pathfinding, _find_path_with_modified_costs or                 *)
(* find_optimal_path) on a network of up to four edges, with the stops at  *)
(* one point or spread along a line.                                       *)
(*   graph : the UniqueEdgesMetroGraph searched                            *)
(*   call  : the search called and its arguments                           *)
(*   ret   : what the search returned                                      *)

(* rows of the GTFS tables the searched network is built from *)
MaxSearchRows == 4

(* stops.txt: all stops at one point, or 1 km apart, or 2 km apart *)
SearchStopTables ==
    {[s \in Stations |-> [name |-> stop_name[s], km |-> s * k]] : k \in {0, 1, 2}}

(* any unique edge; transfers.txt links the two platforms of Chatelet *)
SearchRows ==
    {x \in EdgeRows : x.from < x.to}
        \cup {[from |-> 1, to |-> 2, route |-> "transfer"],
              [from |-> 2, to |-> 1, route |-> "transfer"]}

InitSearch ==
    /\ \E stops \in SearchStopTables, rows \in SubsetsUpTo(SearchRows, MaxSearchRows) :
          \E pick \in PickChoices(EdgesOf(rows)) :
             graph = build_graph(stops, EdgesOf(rows), pick, TransfersOf(rows))
    /\ call = Idle
    /\ ret = NotCalled

RunAStar(a, b, p) ==
    /\ call.op = "idle"
    /\ call' = [op |-> "a_star_pathfinding", start |-> a, end |-> b, prefer |-> p]
    /\ ret' = a_star_pathfinding(graph, a, b, p)
    /\ UNCHANGED graph

RunDijkstra(a, b, p) ==
    /\ call.op = "idle"
    /\ call' = [op |-> "dijkstra_pathfinding", start |-> a, end |-> b, prefer |-> p]
    /\ ret' = dijkstra_pathfinding(graph, a, b, p)
    /\ UNCHANGED graph

(* called by find_multiple_paths with penalty_factor=0.05; it has no       *)
(* prefer_line_continuity argument and always penalizes                    *)
RunModifiedCosts(a, b) ==
    /\ call.op = "idle"
    /\ call' = [op |-> "_find_path_with_modified_costs", start |-> a, end |-> b,
                prefer |-> TRUE]
    /\ ret' = _find_path_with_modified_costs(graph, a, b, RelaxedPenalty)
    /\ UNCHANGED graph

RunFindOptimalPath(a, b, p) ==
    /\ call.op = "idle"
    /\ call' = [op |-> "find_optimal_path", start |-> a, end |-> b, prefer |-> p]
    /\ ret' = find_optimal_path(graph, a, b, p)
    /\ UNCHANGED graph

NextSearch ==
    \/ \E a \in Stations, b \in Stations, p \in BOOLEAN : RunFindOptimalPath(a, b, p)
    \/ \E a \in Stations, b \in Stations, p \in BOOLEAN : RunAStar(a, b, p)
    \/ \E a \in Stations, b \in Stations, p \in BOOLEAN : RunDijkstra(a, b, p)
    \/ \E a \in Stations, b \in Stations : RunModifiedCosts(a, b)

SpecSearch == InitSearch /\ [][NextSearch]_vars

----------------------------------------------------------------------------
(* State machine of one call of _calculate_travel_time_from_terminus on a  *)
(* network of consecutive stops.                                           *)
(*   graph : the UniqueEdgesMetroGraph passed                              *)
(*   call  : the arguments of the call                                     *)
(*   ret   : the travel time returned, with the termini the loop may have  *)
(*           kept in best_terminus (the order of the termini is the        *)
(*           iteration order of the node set)                              *)

(* rows of the unique-edge set the network is built from *)
MaxLineRows == 3

NoTravelTime == [kind |-> "not_called", best_terminus |-> {}, travel_time |-> 0]

InitTerminus ==
    /\ \E rows \in SubsetsUpTo(LineRows, MaxLineRows) :
          \E pick \in PickChoices(EdgesOf(rows)) :
             graph = build_graph([s \in Stations |-> [name |-> stop_name[s], km |-> s]],
                                 EdgesOf(rows), pick, {})
    /\ call = Idle
    /\ ret = NoTravelTime

CalculateTravelTimeFromTerminus(line, from_station, to_station) ==
    /\ call.op = "idle"
    /\ call' = [op |-> "_calculate_travel_time_from_terminus", line |-> line,
                from_station |-> from_station, to_station |-> to_station]
    /\ ret' = [kind |-> "travel_time",
               best_terminus |->
                   IF Cardinality(_get_line_terminus(graph, line)) < 2 THEN {}
                   ELSE best_terminus_set(graph, line, from_station, to_station),
               travel_time |->
                   _calculate_travel_time_from_terminus(graph, line, from_station,
                                                        to_station)]
    /\ UNCHANGED graph

NextTerminus ==
    \E line \in LegLines \ WalkLines, from_station \in Stations, to_station \in Stations :
        CalculateTravelTimeFromTerminus(line, from_station, to_station)

SpecTerminus == InitTerminus /\ [][NextTerminus]_vars

----------------------------------------------------------------------------
(* State machine of the while loop of a search, one iteration at a time.   *)
(*   graph : the UniqueEdgesMetroGraph searched                            *)
(*   call  : the search called and its arguments                           *)
(*   ret   : the local variables of the search (st), the stations in the   *)
(*           order they were added to closed_set / visited (settled), the  *)
(*           neighbours whose score the last iteration wrote (relaxed),    *)
(*           the number of iterations run, and the value returned once pc  *)
(*           is "done"                                                     *)

(* the stops of the network searched: a fifth stop after the four *)
LoopStations == Stations \cup {5}

(* stops.txt: all stops at one point, or 2 km apart *)
LoopStopTables ==
    {[s \in LoopStations |->
         [name |-> IF s \in Stations THEN stop_name[s] ELSE "Republique",
          km |-> s * k]] : k \in {0, 2}}

(* the rows the GTFS tables may hold: two branches from stop 1 to stop 4   *)
(* (of one line, or with a change of line), a link between the branches,   *)
(* stop 5 after stop 4 on either line, and two one-directional transfers   *)
LoopRows ==
    {[from |-> 1, to |-> 2, route |-> "R1"], [from |-> 1, to |-> 3, route |-> "R2"],
     [from |-> 2, to |-> 4, route |-> "R2"], [from |-> 3, to |-> 4, route |-> "R2"],
     [from |-> 2, to |-> 3, route |-> "R1"],
     [from |-> 4, to |-> 5, route |-> "R1"], [from |-> 4, to |-> 5, route |-> "R2"],
     [from |-> 5, to |-> 1, route |-> "transfer"],
     [from |-> 2, to |-> 3, route |-> "transfer"]}

NoSearch ==
    [pc |-> "not_called", st |-> <<>>, settled |-> <<>>, relaxed |-> {},
     iterations |-> 0, result |-> NotCalled]

InitLoop ==
    /\ \E stops \in LoopStopTables, rows \in SUBSET LoopRows :
          \E pick \in PickChoices(EdgesOf(rows)) :
             graph = build_graph(stops, EdgesOf(rows), pick, TransfersOf(rows))
    /\ call = Idle
    /\ ret = NoSearch

(* the search returns before its loop *)
Returned(result) ==
    [pc |-> "done", st |-> <<>>, settled |-> <<>>, relaxed |-> {}, iterations |-> 0,
     result |-> result]

(* the search enters its loop *)
Looping(st) ==
    [pc |-> "loop", st |-> st, settled |-> <<>>, relaxed |-> {}, iterations |-> 0,
     result |-> NotCalled]

StartAStar(a, b, p) ==
    /\ call.op = "idle"
    /\ call' = [op |-> "a_star_pathfinding", start |-> a, end |-> b, prefer |-> p]
    /\ ret' = IF a \notin graph.nodes \/ b \notin graph.nodes THEN Returned(NoneResult)
              ELSE IF a = b THEN Returned(PathResult(<<a>>, 0))
              ELSE Looping([open_set |-> {<<_get_heuristic_cost(graph, a, b), 0, a, NoLine>>},
                            closed_set |-> {},
                            g_score |-> [n \in graph.nodes |-> IF n = a THEN 0 ELSE Infinity],
                            came_from |-> [n \in {} |-> n]])
    /\ UNCHANGED graph

StartDijkstra(a, b, p) ==
    /\ call.op = "idle"
    /\ call' = [op |-> "dijkstra_pathfinding", start |-> a, end |-> b, prefer |-> p]
    /\ ret' = IF a \notin graph.nodes \/ b \notin graph.nodes THEN Returned(NoneResult)
              ELSE IF a = b THEN Returned(PathResult(<<a>>, 0))
              ELSE Looping(dijkstra_init(graph, a))
    /\ UNCHANGED graph

StartModifiedCosts(a, b) ==
    /\ call.op = "idle"
    /\ call' = [op |-> "_find_path_with_modified_costs", start |-> a, end |-> b,
                prefer |-> TRUE]
    /\ ret' = IF a \notin graph.nodes \/ b \notin graph.nodes THEN Returned(NoneResult)
              ELSE IF a = b THEN Returned(PathResult(<<a>>, 0))
              ELSE Looping(dijkstra_init(graph, a))
    /\ UNCHANGED graph

(* the loop ends: the search returns *)
Finish(result, settled) ==
    ret' = [ret EXCEPT !.pc = "done", !.result = result, !.relaxed = {},
                       !.settled = @ \o settled, !.iterations = @ + 1]

(* "while open_set" is false: a_star_pathfinding returns None *)
AStarExhausted ==
    /\ call.op = "a_star_pathfinding" /\ ret.pc = "loop"
    /\ ret.st.open_set = {}
    /\ ret' = [ret EXCEPT !.pc = "done", !.result = NoneResult, !.relaxed = {}]
    /\ UNCHANGED <<graph, call>>

(* mutant: an entry of a station of closed_set is expanded like any other *)
a_star_skips_unguarded(st, current_station) == FALSE

(* "if current_station in closed_set: continue" *)
a_star_skips(st, current_station) == current_station \in st.closed_set

(* one iteration of the while loop of a_star_pathfinding *)
AStarIteration ==
    /\ call.op = "a_star_pathfinding" /\ ret.pc = "loop"
    /\ ret.st.open_set # {}
    /\ LET st == ret.st
           cur == CHOOSE x \in st.open_set :
                      \A y \in st.open_set : x = y \/ AStarLess(x, y)
           open1 == st.open_set \ {cur}
           current_station == cur[3]
           current_line == cur[4]
           closed1 == st.closed_set \cup {current_station}
           nbrs == get_neighbors(graph, current_station) \ closed1
           line(n) == get_line_between_stations(graph, current_station, n)
           tentative(n) == st.g_score[current_station]
                + edge_cost(call.prefer, current_line, line(n), AStarPenalty)
           better == {n \in nbrs : tentative(n) < st.g_score[n]}
       IN  IF a_star_skips(st, current_station)
           THEN ret' = [ret EXCEPT !.st.open_set = open1, !.relaxed = {},
                                   !.iterations = @ + 1]
           ELSE IF current_station = call.end
           THEN Finish(PathResult(reconstruct(st.came_from, current_station),
                                  st.g_score[call.end]),
                       <<current_station>>)
           ELSE IF \E n \in nbrs : n \notin DOMAIN st.g_score
           THEN Finish(Raised("KeyError"), <<current_station>>)
           ELSE ret' = [ret EXCEPT
                  !.st = [open_set |-> open1 \cup
                              {<<tentative(n) + _get_heuristic_cost(graph, n, call.end),
                                 tentative(n), n, line(n)>> : n \in better},
                          closed_set |-> closed1,
                          g_score |-> [x \in DOMAIN st.g_score |->
                                          IF x \in better THEN tentative(x)
                                          ELSE st.g_score[x]],
                          came_from |-> [x \in DOMAIN st.came_from \cup better |->
                                          IF x \in better THEN current_station
                                          ELSE st.came_from[x]]],
                  !.settled = Append(@, current_station),
                  !.relaxed = better,
                  !.iterations = @ + 1]
    /\ UNCHANGED <<graph, call>>

IsDijkstraCall == call.op \in {"dijkstra_pathfinding", "_find_path_with_modified_costs"}

(* "while priority_queue" is false: dijkstra_pathfinding returns None,     *)
(* _find_path_with_modified_costs raises on its last statement             *)
DijkstraExhausted ==
    /\ IsDijkstraCall /\ ret.pc = "loop"
    /\ ret.st.priority_queue = {}
    /\ ret' = [ret EXCEPT !.pc = "done", !.relaxed = {},
                          !.result = IF call.op = "dijkstra_pathfinding" THEN NoneResult
                                     ELSE Raised("TypeError")]
    /\ UNCHANGED <<graph, call>>

(* one iteration of the while loop of dijkstra_pathfinding or of           *)
(* _find_path_with_modified_costs                                          *)
DijkstraIteration ==
    /\ IsDijkstraCall /\ ret.pc = "loop"
    /\ ret.st.priority_queue # {}
    /\ LET st == ret.st
           penalty == IF call.op = "dijkstra_pathfinding" THEN DijkstraPenalty
                      ELSE RelaxedPenalty
           cur == CHOOSE x \in st.priority_queue :
                      \A y \in st.priority_queue : x = y \/ DijkstraLess(x, y)
           queue1 == st.priority_queue \ {cur}
           current_distance == cur[1]
           current_station == cur[2]
           current_line == cur[3]
           visited1 == st.visited \cup {current_station}
           nbrs == get_neighbors(graph, current_station) \ visited1
           line(n) == get_line_between_stations(graph, current_station, n)
           new_distance(n) == current_distance
                + edge_cost(call.prefer, current_line, line(n), penalty)
           better == {n \in nbrs : new_distance(n) < st.distances[n]}
       IN  IF current_station \in st.visited
           THEN ret' = [ret EXCEPT !.st.priority_queue = queue1, !.relaxed = {},
                                   !.iterations = @ + 1]
           ELSE IF current_station = call.end
           THEN Finish(PathResult(reconstruct(st.predecessors, call.end),
                                  st.distances[call.end]),
                       <<current_station>>)
           ELSE IF \E n \in nbrs : n \notin DOMAIN st.distances
           THEN Finish(Raised("KeyError"), <<current_station>>)
           ELSE ret' = [ret EXCEPT
                  !.st = [priority_queue |-> queue1 \cup
                              {<<new_distance(n), n, line(n)>> : n \in better},
                          visited |-> visited1,
                          distances |-> [x \in DOMAIN st.distances |->
                                          IF x \in better THEN new_distance(x)
                                          ELSE st.distances[x]],
                          predecessors |-> [x \in DOMAIN st.predecessors \cup better |->
                                          IF x \in better THEN current_station
                                          ELSE st.predecessors[x]]],
                  !.settled = Append(@, current_station),
                  !.relaxed = better,
                  !.iterations = @ + 1]
    /\ UNCHANGED <<graph, call>>

NextLoop ==
    \/ \E a \in LoopStations, b \in LoopStations, p \in BOOLEAN : StartAStar(a, b, p)
    \/ \E a \in LoopStations, b \in LoopStations, p \in BOOLEAN : StartDijkstra(a, b, p)
    \/ \E a \in LoopStations, b \in LoopStations : StartModifiedCosts(a, b)
    \/ AStarIteration
    \/ AStarExhausted
    \/ DijkstraIteration
    \/ DijkstraExhausted

SpecLoop == InitLoop /\ [][NextLoop]_vars

----------------------------------------------------------------------------
(* Claims about the path search (specification Spec) *)

(* stations reachable from a along adjacency entries *)
RECURSIVE ReachSet(_, _)
ReachSet(G, seen) ==
    LET more == seen \cup UNION {get_neighbors(G, n) : n \in seen}
    IN  IF more = seen THEN seen ELSE ReachSet(G, more)

HasPath(G, a, b) == a \in G.nodes /\ b \in G.nodes /\ b \in ReachSet(G, {a})

BothSearchesRan == ret.astar # NotCalled /\ ret.dijkstra # NotCalled

OptimalRan == ret.optimal # NoTrace

(* C2: for every station s of the graph and both values of                 *)
(* prefer_line_continuity, find_optimal_path from s to s returns the path  *)
(* [s] with cost 0.                                                        *)
C2_SameStationZeroCost ==
    (OptimalRan /\ call.start = call.end /\ call.start \in graph.nodes)
        => ret.optimal.result = PathResult(<<call.start>>, 0)

C2_Witness ==
    /\ OptimalRan /\ call.start = call.end /\ call.start \in graph.nodes
    /\ ~call.prefer
    /\ Cardinality(graph.nodes) >= 3

MultipleRan == ret.multiple # NoList

NoRoute ==
    \/ call.start \notin graph.nodes
    \/ call.end \notin graph.nodes
    \/ ~HasPath(graph, call.start, call.end)

(* C3: when the start or end station is not in the graph, or no path       *)
(* connects the two stations, find_optimal_path returns None and           *)
(* find_multiple_paths returns an empty list; neither raises.              *)
C3_NoRouteIsNoneAndEmptyList ==
    NoRoute =>
        /\ OptimalRan => IsNone(ret.optimal.result)
        /\ MultipleRan => (ret.multiple.kind = "list" /\ ret.multiple.paths = <<>>)

(* C4: find_optimal_path runs Dijkstra if and only if A* returned None or  *)
(* raised; it returns A*'s result when A* succeeds, returns None only      *)
(* after both searches failed, and never propagates an exception of        *)
(* either search.                                                          *)
C4_FallbackChain ==
    OptimalRan =>
        /\ ret.optimal.ran_dijkstra <=> (IsNone(ret.optimal.astar) \/ IsRaise(ret.optimal.astar))
        /\ IsPath(ret.optimal.astar) => ret.optimal.result = ret.optimal.astar
        /\ IsNone(ret.optimal.result) =>
              /\ ~IsPath(ret.optimal.astar)
              /\ ret.optimal.ran_dijkstra
              /\ ~IsPath(ret.optimal.dijkstra)
        /\ (ret.optimal.ran_dijkstra /\ IsPath(ret.optimal.dijkstra))
              => ret.optimal.result = ret.optimal.dijkstra
        /\ ~IsRaise(ret.optimal.result)

(* A* raised, Dijkstra ran and raised too, and the caller got None *)
C4_Witness ==
    /\ OptimalRan
    /\ IsRaise(ret.optimal.astar)
    /\ ret.optimal.ran_dijkstra
    /\ IsRaise(ret.optimal.dijkstra)
    /\ IsNone(ret.optimal.result)

(* C5: find_multiple_paths returns a list of no more than max_paths        *)
(* entries.                                                                *)
C5_AtMostMaxPaths ==
    (MultipleRan /\ ret.multiple.kind = "list")
        => Len(ret.multiple.paths) <= ret.multiple.max_paths

(* max_paths = 1 cut the answer short: with max_paths = 2 the same request *)
(* yields two entries                                                      *)
C5_Witness ==
    /\ MultipleRan /\ ret.multiple.kind = "list"
    /\ ret.multiple.max_paths = 1
    /\ Len(ret.multiple.paths) = 1
    /\ Len(find_multiple_paths(graph, call.start, call.end, 2).paths) = 2

(* the equivalence of the claim, spelled out: cost difference <= 0.1,      *)
(* station-count difference <= 2, Jaccard similarity of the station sets   *)
(* > 0.7                                                                   *)
ClaimEquivalent(p, q) ==
    /\ Abs(p.distance - q.distance) <= 2
    /\ Abs(Len(p.path) - Len(q.path)) <= 2
    /\ 10 * Cardinality(SetOf(p.path) \cap SetOf(q.path))
          > 7 * Cardinality(SetOf(p.path) \cup SetOf(q.path))

----------------------------------------------------------------------------
(* Claims about the segments (specification SpecSegment) *)

(* C7: no segment emitted by process_routes_for_frontend, be it a line     *)
(* segment, a transfer segment or the basic segment created when no        *)
(* segment was built, has its from station equal to its to station.        *)
C7_NoSegmentFromEqualsTo ==
    ret.kind = "list" =>
        \A i \in DOMAIN ret.routes :
            \A k \in DOMAIN ret.routes[i].segments :
                ret.routes[i].segments[k].from # ret.routes[i].segments[k].to

SegmentRan == call.op = "process_routes_for_frontend" /\ ret.kind = "list"

NoRepeatedStation(path) ==
    \A i, j \in DOMAIN path : i # j => path[i] # path[j]

RECURSIVE stops_sum(_, _)
stops_sum(segments, k) ==
    IF k > Len(segments) THEN 0
    ELSE segments[k].stops + stops_sum(segments, k + 1)

(* C29: for every input path of two or more stations without a repeated   *)
(* station, the segments built by process_routes_for_frontend are          *)
(* contiguous and conserve the path: the first segment starts at path[0],  *)
(* each segment's to station is the next segment's from station, the last  *)
(* segment ends at path[-1], and the stop counts sum to len(path) - 1;     *)
(* the same holds of the named segments of the route returned.             *)
C29_SegmentsConserveThePath ==
    (SegmentRan /\ Len(call.routes[1].path) >= 2
                /\ NoRepeatedStation(call.routes[1].path)) =>
        LET path == call.routes[1].path
            segments == build_segments(graph, path)
        IN  /\ Len(ret.routes) = 1
            /\ Len(segments) >= 1
            /\ segments[1].from = path[1]
            /\ \A k \in 1 .. Len(segments) - 1 :
                   segments[k].to = segments[k + 1].from
            /\ segments[Len(segments)].to = path[Len(path)]
            /\ stops_sum(segments, 1) = Len(path) - 1
            /\ LET sent == ret.routes[1].segments
               IN  /\ Len(sent) = Len(segments)
                   /\ sent[1].from = get_station_name(graph, path[1])
                   /\ \A k \in 1 .. Len(sent) - 1 : sent[k].to = sent[k + 1].from
                   /\ sent[Len(sent)].to = get_station_name(graph, path[Len(path)])
                   /\ stops_sum(sent, 1) = Len(path) - 1

(* a path of three distinct stations whose two steps were merged into one  *)
(* segment of two stops                                                    *)
C29_Witness ==
    /\ SegmentRan
    /\ Len(call.routes[1].path) = 3
    /\ NoRepeatedStation(call.routes[1].path)
    /\ Len(ret.routes) = 1
    /\ Len(ret.routes[1].segments) = 1
    /\ ret.routes[1].segments[1].stops = 2
    /\ ret.routes[1].segments[1].type = "normal"

----------------------------------------------------------------------------
(* Claims about the deduplication (specification SpecDedup) *)

DedupRan == call.op = "deduplicate_routes" /\ ret.kind = "list"

SameLeg(x, y) ==
    x.line = y.line /\ x.from = y.from /\ x.to = y.to /\ x.type = y.type

(* what the claims call a rejected candidate: no segment, more than 20     *)
(* segments, or three segments in a row of one line, from, to and type     *)
ClaimRejected(route) ==
    \/ Len(route.segments) = 0
    \/ Len(route.segments) > 20
    \/ \E i \in 1 .. Len(route.segments) - 2 :
          /\ SameLeg(route.segments[i], route.segments[i + 1])
          /\ SameLeg(route.segments[i + 1], route.segments[i + 2])

(* C8 as stated: every route of the list returned by deduplicate_routes    *)
(* has at most 20 segments, for every input list.                          *)
C8_AtMostTwentySegments ==
    DedupRan => \A i \in DOMAIN ret.routes : Len(ret.routes[i].segments) <= 20

(* C8 as amended: every route returned is one of the input routes,         *)
(* unchanged (never truncated), and has at most 20 segments unless every   *)
(* input route was rejected, in which case the list returned holds the     *)
(* first input route alone.                                                *)
C8_AtMostTwentyUnlessFallback ==
    DedupRan =>
        /\ \A i \in DOMAIN ret.routes : ret.routes[i] \in Range(call.routes)
        /\ IF \E j \in DOMAIN call.routes : ~ClaimRejected(call.routes[j])
           THEN \A i \in DOMAIN ret.routes : Len(ret.routes[i].segments) <= 20
           ELSE Len(call.routes) > 0 => ret.routes = <<call.routes[1]>>

(* a route of 21 segments was passed with a logical one and only the       *)
(* logical one came back                                                   *)
C8_Witness ==
    /\ DedupRan
    /\ Len(call.routes) = 2
    /\ Len(call.routes[1].segments) = 21
    /\ ~ClaimRejected(call.routes[2])
    /\ ret.routes = <<call.routes[2]>>

(* C9: deduplicate_routes returns a non-empty list whenever its input list *)
(* is non-empty; when every input route is rejected the list returned is   *)
(* the first input route.                                                  *)
C9_NonEmptyOutput ==
    (DedupRan /\ Len(call.routes) > 0) =>
        /\ Len(ret.routes) > 0
        /\ (\A j \in DOMAIN call.routes : ClaimRejected(call.routes[j]))
              => ret.routes = <<call.routes[1]>>

(* two rejected routes were passed, the first came back *)
C9_Witness ==
    /\ DedupRan
    /\ Len(call.routes) = 2
    /\ call.routes[1] # call.routes[2]
    /\ \A j \in DOMAIN call.routes : ClaimRejected(call.routes[j])
    /\ ret.routes = <<call.routes[1]>>

----------------------------------------------------------------------------
(* Claims about the schedule (specification SpecSchedule) *)

JourneyOk == ret.kind = "ok" /\ ret.segments # <<>>

(* minutes from clock time a to clock time b *)
ClockDiff(a, b) == (b - a) % MinutesPerDay

(* the departure time wished is on a whole minute *)
WholeMinute == call.departure_time % SecondsPerMinute = 0

(* tenths of a minute of a duration modulo a day, in minutes *)
MinutesOf(tenths) == (tenths \div 10) % MinutesPerDay

(* C10 as stated: total_travel_time equals the arrival_time of the last    *)
(* segment minus the departure_time of the first segment.                  *)
C10_TotalIsLastArrivalMinusFirstDeparture ==
    JourneyOk /\ WholeMinute =>
        /\ ret.total_travel_time % 10 = 0
        /\ MinutesOf(ret.total_travel_time)
              = ClockDiff(ret.segments[1].departure_time,
                          ret.segments[Len(ret.segments)].arrival_time)

(* C10 as amended: total_travel_time equals the arrival_time of the last   *)
(* segment minus the departure time wished (the departure_time of the      *)
(* itinerary), that is, for a departure wished on a whole minute, the      *)
(* departure_time of the first segment less the waiting_time of that       *)
(* segment.                                                                *)
C10_TotalIsLastArrivalMinusWishedDeparture ==
    JourneyOk =>
        /\ ret.departure_time = strftime(call.departure_time)
        /\ ret.arrival_time = ret.segments[Len(ret.segments)].arrival_time
        /\ WholeMinute =>
              /\ ret.total_travel_time % 10 = 0
              /\ ret.segments[1].waiting_time % 10 = 0
              /\ MinutesOf(ret.total_travel_time)
                    = ClockDiff(ret.departure_time, ret.arrival_time)
              /\ MinutesOf(ret.total_travel_time)
                    = (ClockDiff(ret.segments[1].departure_time,
                                 ret.segments[Len(ret.segments)].arrival_time)
                         + MinutesOf(ret.segments[1].waiting_time)) % MinutesPerDay

(* a journey of two metro segments that starts with a wait *)
C10_Witness ==
    /\ JourneyOk /\ WholeMinute
    /\ Len(ret.segments) = 2
    /\ ret.segments[1].type = "metro" /\ ret.segments[2].type = "metro"
    /\ ret.segments[1].waiting_time > 0
    /\ ret.total_travel_time
          = ret.segments[1].waiting_time + 10 * ret.segments[1].travel_time
              + ret.segments[2].waiting_time + 10 * ret.segments[2].travel_time

(* sum of the waiting_time of the segments from the i-th on *)
RECURSIVE SumWaiting(_, _)
SumWaiting(segments, i) ==
    IF i > Len(segments) THEN 0
    ELSE segments[i].waiting_time + SumWaiting(segments, i + 1)

(* C11: for every itinerary returned without error, total_waiting_time is  *)
(* the sum of the waiting_time of its segments, the transfer segments      *)
(* counting for 0.                                                         *)
C11_TotalWaitingIsSum ==
    ret.kind = "ok" =>
        /\ \A i \in DOMAIN ret.segments :
              ret.segments[i].type = "transfer" => ret.segments[i].waiting_time = 0
        /\ ret.total_waiting_time = SumWaiting(ret.segments, 1)

(* get_next_departure has returned for a line of the table at a time that *)
(* no range of the line holds                                              *)
OutOfService ==
    /\ ret.kind = "departure"
    /\ call.line \in DOMAIN call.self.frequencies
    /\ \A i \in DOMAIN call.self.frequencies[call.line] :
          ~_time_in_range(time_of(call.current_time),
                          _parse_time(call.self.frequencies[call.line][i].start),
                          _parse_time(call.self.frequencies[call.line][i].end))

(* the starts of the ranges of the line, on the day of the call and on the *)
(* day after                                                               *)
RangeStarts ==
    {combine(day, _parse_time(call.self.frequencies[call.line][i].start)) :
        day \in {date_of(call.current_time), date_of(call.current_time) + 1},
        i \in DOMAIN call.self.frequencies[call.line]}

ActiveRanges ==
    IF call.line \in DOMAIN call.self.frequencies
    THEN {i \in DOMAIN call.self.frequencies[call.line] :
             _time_in_range(time_of(call.current_time),
                            _parse_time(call.self.frequencies[call.line][i].start),
                            _parse_time(call.self.frequencies[call.line][i].end))}
    ELSE {}

(* C25: whenever current_time lies inside an active frequency range of the *)
(* line, the waiting time get_next_departure(line, current_time, ...) -    *)
(* current_time is greater than zero and at most one headway of that       *)
(* range, for every terminus offset.                                       *)
C25_WaitWithinOneHeadway ==
    (ret.kind = "departure" /\ ActiveRanges # {}) =>
        /\ ret.next.some
        /\ ret.next.val > call.current_time
        /\ \E i \in ActiveRanges :
              ret.next.val - call.current_time
                  <= timedelta(0, call.self.frequencies[call.line][i].frequency)

(* C27: get_next_departure terminates for every frequency table, the      *)
(* malformed ones included (a headway of 0, ranges that never admit a      *)
(* candidate departure): its loop over the departures runs at most 1001    *)
(* iterations before the function returns a time or None.                  *)
C27_DepartureLoopCapped ==
    ret.kind = "departure" =>
        /\ ret.iterations <= MaxDepartureNumber + 1
        /\ ret.next.some \/ ret.next = None
        /\ ret.iterations = MaxDepartureNumber + 1
              => ret.next = _find_next_service_time(call.self, call.line, call.current_time)

(* with a headway of 0 the loop ran its 1001 iterations and the call       *)
(* returned the next start of service                                      *)
C27_Witness ==
    /\ ret.kind = "departure"
    /\ call.self = MalformedCalculator
    /\ call.line = "1"
    /\ ret.iterations = MaxDepartureNumber + 1
    /\ ret.next.some

(* calculate_journey_time_with_schedule has returned *)
JourneyRan == call.op = "calculate_journey_time_with_schedule"

(* the lines of the segments of the path that are metro segments *)
MetroLines ==
    {call.path[i].line : i \in DOMAIN call.path} \ (UnknownLines \cup GroupedWalkLines)

(* C16: when the line of a metro segment is absent from the frequency      *)
(* table, or the terminus search for the line finds no terminus,           *)
(* calculate_journey_time_with_schedule does not fail the itinerary: it    *)
(* returns a timed itinerary, not an error.                                *)
C16_NoErrorWithoutTableOrTerminus ==
    (/\ JourneyRan
     /\ \E line \in MetroLines :
           \/ line \notin DOMAIN call.self.frequencies
           \/ call.with_graph /\ Cardinality(_get_line_terminus(graph, line)) < 2)
        => ret.kind = "ok"

(* the line runs at the time of day: a range of its table holds the time *)
InService(line, time) ==
    /\ line \in DOMAIN call.self.frequencies
    /\ \E i \in DOMAIN call.self.frequencies[line] :
          _time_in_range(time, _parse_time(call.self.frequencies[line][i].start),
                         _parse_time(call.self.frequencies[line][i].end))

(* time of day at which the traveller reaches the i-th segment of the      *)
(* itinerary: the departure wished, or the arrival of the segment before   *)
(* (the seconds of the departure wished last until the first metro)        *)
ReachedAt(i) ==
    IF i = 1 THEN time_of(call.departure_time)
    ELSE ret.segments[i - 1].arrival_time * SecondsPerMinute
           + (IF \A j \in 1 .. i - 1 : ret.segments[j].type = "transfer"
              THEN call.departure_time % SecondsPerMinute ELSE 0)

(* C17: calculate_journey_time_with_schedule returns an error whenever the *)
(* line of some metro segment has no active service at the time the        *)
(* traveller reaches that segment: an itinerary returned has every metro   *)
(* segment reached while its line runs.                                    *)
C17_ErrorWhenOffSchedule ==
    (JourneyRan /\ ret.kind = "ok") =>
        \A i \in DOMAIN ret.segments :
            ret.segments[i].type = "metro"
                => InService(ret.segments[i].line, ReachedAt(i))

----------------------------------------------------------------------------
(* More claims about the path search (specification Spec) *)

(* the graph is the line a - b - c, both edges on line "1" *)
IsLineGraph(a, b, c) ==
    /\ a # b /\ b # c /\ a # c
    /\ graph.nodes = {a, b, c}
    /\ get_neighbors(graph, a) = {b}
    /\ get_neighbors(graph, b) = {a, c}
    /\ get_neighbors(graph, c) = {b}
    /\ \A x \in {a, c} : /\ get_line_between_stations(graph, x, b) = "1"
                          /\ get_line_between_stations(graph, b, x) = "1"

(* C15: on the line graph A - B - C whose two edges carry line "1",        *)
(* find_optimal_path(A, C) returns the path [A, B, C] with cost 2.0.       *)
C15_LineGraphCostTwo ==
    \A a, b, c \in Stations :
        (OptimalRan /\ IsLineGraph(a, b, c) /\ call.start = a /\ call.end = c)
            => ret.optimal.result = PathResult(<<a, b, c>>, 2 * BaseEdgeCost)

C15_Witness ==
    /\ OptimalRan /\ IsLineGraph(1, 2, 3)
    /\ call.start = 1 /\ call.end = 3 /\ call.prefer
    /\ ret.optimal.result = PathResult(<<1, 2, 3>>, 2 * BaseEdgeCost)

----------------------------------------------------------------------------
(* Claims about the built graph (specification Spec) *)

(* C21: after build_graph every station that appears as a neighbour in an  *)
(* adjacency entry is itself a member of nodes, whatever the line edges    *)
(* and the transfers (one-directional or not), so that get_neighbors never *)
(* yields a station missing from the score tables of the searches.         *)
C21_NeighboursAreNodes ==
    \A a \in DOMAIN graph.adjacency :
        \A b \in get_neighbors(graph, a) : b \in graph.nodes

(* C28: after build_graph the set of keys of adjacency equals nodes and    *)
(* every station of nodes has at least one outgoing adjacency entry (the   *)
(* isolated stations are removed from both nodes and adjacency).           *)
C28_NodesAreKeysWithEntries ==
    /\ DOMAIN graph.adjacency = graph.nodes
    /\ \A n \in graph.nodes : DOMAIN graph.adjacency[n] # {}

(* the pruning has removed the target of a one-directional transfer *)
C28_Witness ==
    /\ graph.nodes # {}
    /\ \E a \in graph.nodes : \E b \in get_neighbors(graph, a) :
          /\ graph.adjacency[a][b][1] = "transfer"
          /\ b \notin graph.nodes

(* the adjacency entry from a to b is a line edge *)
is_line_entry(G, a, b) ==
    a \in DOMAIN G.adjacency /\ b \in DOMAIN G.adjacency[a]
        /\ G.adjacency[a][b][1] # "transfer"

(* C22: after build_graph, for every direct line edge between stations a   *)
(* and b, adjacency holds both a -> b and b -> a, and the two entries      *)
(* carry the same line id and the same cost, whatever transfers are        *)
(* loaded too.                                                             *)
C22_LineEdgesMirrored ==
    \A a \in Stations, b \in Stations :
        is_line_entry(graph, a, b)
            => /\ b \in DOMAIN graph.adjacency
               /\ a \in DOMAIN graph.adjacency[b]
               /\ graph.adjacency[b][a] = graph.adjacency[a][b]

----------------------------------------------------------------------------
(* Claims about a_star_pathfinding (specification SpecSearch) *)

(* the paths of the graph from the end of path to end_station that extend  *)
(* path and visit no station twice                                         *)
RECURSIVE paths_onto(_, _, _)
paths_onto(G, path, end_station) ==
    IF path[Len(path)] = end_station THEN {path}
    ELSE UNION {paths_onto(G, Append(path, n), end_station) :
                   n \in get_neighbors(G, path[Len(path)]) \ Range(path)}

(* cost of the first k stations of a path under the edge costs of A*: 1.0  *)
(* an edge, plus the penalty of an edge whose line differs from the line   *)
(* of the edge before                                                      *)
RECURSIVE a_star_cost(_, _, _, _)
a_star_cost(G, path, k, prefer_line_continuity) ==
    IF k <= 1 THEN 0
    ELSE a_star_cost(G, path, k - 1, prefer_line_continuity)
           + edge_cost(prefer_line_continuity,
                       IF k = 2 THEN NoLine
                       ELSE get_line_between_stations(G, path[k - 2], path[k - 1]),
                       get_line_between_stations(G, path[k - 1], path[k]),
                       AStarPenalty)

SearchRan == call.op = "a_star_pathfinding"

(* C18: whenever a_star_pathfinding returns a path, its cost is the        *)
(* minimum, over all paths from start to end, of the path cost under the   *)
(* edge costs of A*, for both values of prefer_line_continuity and for     *)
(* every placement of the stations.                                        *)
C18_AStarReturnsCheapestPath ==
    (SearchRan /\ IsPath(ret)) =>
        /\ ret.distance = a_star_cost(graph, ret.path, Len(ret.path), call.prefer)
        /\ \A p \in paths_onto(graph, <<call.start>>, call.end) :
              ret.distance <= a_star_cost(graph, p, Len(p), call.prefer)

(* the edge is one of the transfer edges added by step 9 of build_graph *)
is_transfer_edge(G, from_id, to_id) == G.adjacency[from_id][to_id][1] = "transfer"

(* cost of the first k stations of a path when the penalty is added        *)
(* exactly to an edge that has an edge before it, whose line differs from  *)
(* the line of that edge, and that is no transfer edge                     *)
RECURSIVE cost_sparing_transfers(_, _, _, _)
cost_sparing_transfers(G, path, k, prefer_line_continuity) ==
    IF k <= 1 THEN 0
    ELSE cost_sparing_transfers(G, path, k - 1, prefer_line_continuity)
           + (IF /\ prefer_line_continuity
                 /\ k > 2
                 /\ get_line_between_stations(G, path[k - 1], path[k])
                       # get_line_between_stations(G, path[k - 2], path[k - 1])
                 /\ ~is_transfer_edge(G, path[k - 1], path[k])
              THEN BaseEdgeCost + AStarPenalty
              ELSE BaseEdgeCost)

(* C19: in a search of the transit graph an edge that is a transfer never  *)
(* incurs the line-change penalty: the penalty of A* is added exactly when *)
(* prefer_line_continuity is true, a previous edge exists, the line of the *)
(* candidate edge differs from the line of the previous edge, and the      *)
(* candidate edge is not a transfer edge of the graph.                     *)
C19_TransferEdgeNeverPenalized ==
    (SearchRan /\ IsPath(ret)) =>
        ret.distance = cost_sparing_transfers(graph, ret.path, Len(ret.path), call.prefer)

(* the penalty of the search called *)
SearchPenalty ==
    IF call.op = "a_star_pathfinding" THEN AStarPenalty
    ELSE IF call.op = "dijkstra_pathfinding" THEN DijkstraPenalty
    ELSE RelaxedPenalty

(* cost of the first k stations of a path: 1.0 an edge, plus the penalty   *)
(* for an edge, other than the first, whose line differs from the line of  *)
(* the edge before it and is not "transfer"                                *)
RECURSIVE recomputed_cost(_, _, _)
recomputed_cost(G, path, k) ==
    IF k <= 1 THEN 0
    ELSE recomputed_cost(G, path, k - 1)
           + (IF /\ call.prefer
                 /\ k > 2
                 /\ get_line_between_stations(G, path[k - 1], path[k])
                       # get_line_between_stations(G, path[k - 2], path[k - 1])
                 /\ get_line_between_stations(G, path[k - 1], path[k]) # "transfer"
              THEN BaseEdgeCost + SearchPenalty
              ELSE BaseEdgeCost)

(* C23: the distance returned by a_star_pathfinding, dijkstra_pathfinding  *)
(* and _find_path_with_modified_costs equals the cost recomputed along the *)
(* returned path: 1.0 per edge plus the penalty of the search for each     *)
(* edge, other than the first, whose line differs from the line of the     *)
(* preceding edge of the path and is not "transfer".                       *)
C23_DistanceIsCostOfPath ==
    (/\ call.op \in {"a_star_pathfinding", "dijkstra_pathfinding",
                      "_find_path_with_modified_costs"}
     /\ IsPath(ret)) =>
        ret.distance = recomputed_cost(graph, ret.path, Len(ret.path))

(* dijkstra_pathfinding returns a path of three edges with one change of   *)
(* line on it                                                              *)
C23_Witness ==
    /\ call.op = "dijkstra_pathfinding"
    /\ IsPath(ret)
    /\ Len(ret.path) = 4
    /\ ret.distance = 3 * BaseEdgeCost + DijkstraPenalty

(* C24: every path returned by find_optimal_path begins with the start     *)
(* station, ends with the end station, contains no station more than once, *)
(* and each consecutive pair (u, v) of it has v among get_neighbors(u).    *)
C24_OptimalPathIsSimplePath ==
    (call.op = "find_optimal_path" /\ IsPath(ret)) =>
        /\ Len(ret.path) >= 1
        /\ ret.path[1] = call.start
        /\ ret.path[Len(ret.path)] = call.end
        /\ \A i \in DOMAIN ret.path, j \in DOMAIN ret.path :
              ret.path[i] = ret.path[j] => i = j
        /\ \A i \in 1 .. Len(ret.path) - 1 :
              ret.path[i + 1] \in get_neighbors(graph, ret.path[i])

(* find_optimal_path returns a path through the four stations of a graph   *)
(* that has a one-directional transfer on the way                          *)
C24_Witness ==
    /\ call.op = "find_optimal_path"
    /\ IsPath(ret)
    /\ Len(ret.path) = 4
    /\ \E i \in 1 .. 3 : is_transfer_edge(graph, ret.path[i], ret.path[i + 1])

----------------------------------------------------------------------------
(* Claims about the loops of the searches (specification SpecLoop) *)

(* number of entries of the adjacency of the graph *)
RECURSIVE entries(_, _)
entries(G, keys) ==
    IF keys = {} THEN 0
    ELSE LET a == CHOOSE x \in keys : TRUE
         IN  Cardinality(DOMAIN G.adjacency[a]) + entries(G, keys \ {a})

(* C26: in every run of a_star_pathfinding, dijkstra_pathfinding and       *)
(* _find_path_with_modified_costs each station is settled (added to        *)
(* closed_set / visited) at most once and no neighbour already settled is  *)
(* relaxed or expanded again; consequently the search terminates: its loop *)
(* runs at most one iteration for the start entry and one for each entry   *)
(* of the adjacency.                                                       *)
C26_SettledOnceAndLoopBounded ==
    ret.pc \in {"loop", "done"} =>
        /\ \A i \in DOMAIN ret.settled, j \in DOMAIN ret.settled :
              ret.settled[i] = ret.settled[j] => i = j
        /\ ret.relaxed \cap Range(ret.settled) = {}
        /\ ret.iterations <= 1 + entries(graph, DOMAIN graph.adjacency)

(* a search has returned a path after popping an entry of a station that   *)
(* was settled already                                                     *)
C26_Witness ==
    /\ ret.pc = "done"
    /\ IsPath(ret.result)
    /\ ret.iterations > Len(ret.settled)
    /\ Len(ret.settled) > 1

----------------------------------------------------------------------------
(* Claims about the terminus of a line (specification SpecTerminus) *)

(* every edge between stops a and b, which lie along one line, is an edge  *)
(* of the line                                                             *)
AlongLine(G, line, a, b) ==
    \A i \in Stations :
        ((a <= i /\ i < b) \/ (b <= i /\ i < a))
            => get_line_between_stations(G, i, i + 1) = line

(* a train of the line leaving the terminus towards to_station passes      *)
(* from_station first                                                      *)
IsBehind(G, line, terminus, from_station, to_station) ==
    /\ AlongLine(G, line, terminus, from_station)
    /\ \/ terminus <= from_station /\ from_station < to_station
       \/ terminus >= from_station /\ from_station > to_station

(* C20: among the terminus stations of a line, the one selected by         *)
(* _calculate_travel_time_from_terminus for a trip from_station ->         *)
(* to_station along the line is the terminus behind the travel direction   *)
(* (a train leaving it towards to_station passes from_station first).      *)
C20_TerminusBehindTravelDirection ==
    (/\ call.op = "_calculate_travel_time_from_terminus"
     /\ call.from_station # call.to_station
     /\ AlongLine(graph, call.line, call.from_station, call.to_station))
        => \A t \in ret.best_terminus :
              IsBehind(graph, call.line, t, call.from_station, call.to_station)

----------------------------------------------------------------------------
(* Claims about the lazy loading of the graph (specification SpecLoad) *)

(* C13: whatever the interleaving of the requests that call                *)
(* get_unique_graph while the global graph is not initialised, at most one *)
(* execution of build_graph is in progress at any time.                    *)
C13_AtMostOneBuild ==
    Cardinality({t \in Threads : call[t].pc \in BuildSteps}) <= 1

(* C14: no request obtains from get_unique_graph a graph whose             *)
(* construction has not completed, and no request reads the nodes and the  *)
(* adjacency of a graph while build_graph is running on it.                *)
C14_OnlyCompleteGraphs ==
    \A t \in Threads :
        /\ (ret[t].kind = "returned" /\ ret[t].g # 0) => ret[t].complete
        /\ ret[t].read => ~ret[t].mid_flight
        /\ call[t].pc = "search" => ~InProgress(ret[t].g)

(* C30: when the construction or build_graph raises inside                 *)
(* get_unique_graph, the global is None from the except clause to the      *)
(* return of that call, which returns None, so that the next call starts a *)
(* new build; and once a build has returned without raising, the global    *)
(* is the object it built, so that the build is never repeated and every   *)
(* later call returns that object.                                         *)
C30_FailedBuildResetSuccessfulBuildKept ==
    /\ \A t \in Threads :
          /\ (call[t].raised /\ call[t].pc = "line53") => graph.unique_graph = 0
          /\ (call[t].raised /\ ret[t].kind = "returned") => ret[t].g = 0
    /\ \A i \in DOMAIN graph.heap :
          graph.heap[i].built => graph.unique_graph = i

====
